---------------------------- MODULE Spec2Model ----------------------------
(***************************************************************************)
(* The deken package manager of PlugData (Source/Dialogs/Deken.h):         *)
(* PackageManager, its DownloadTask workers, the registry tree             *)
(* (packageState) with its on-disk copy (pkgInfo), and the message thread  *)
(* that runs the user's requests and the callbacks queued by callAsync.    *)
(*                                                                         *)
(* Threads: the message thread ("message") and one worker per started      *)
(* DownloadTask ("worker").  A step of the model is one call on a shared    *)
(* object (the registry tree, the registry file, the message queue, the    *)
(* exit flag of a thread); steps of different threads interleave freely,   *)
(* as nothing in the source orders them.                                   *)
(*                                                                         *)
(* Strings are sequences of one-character strings, so that the string      *)
(* functions of the source are computed, not assumed.                      *)
(*                                                                         *)
(* Specifications: Spec is one run of the program with its downloads and   *)
(* its registry, under any order of calls; SpecStore is the registry over  *)
(* several runs, driven from the rows of the dialog; SpecRefresh is the    *)
(* refresh of the catalogue; SpecId and SpecArch evaluate operator== of    *)
(* PackageInfo and checkArchitecture on bounded inputs; SpecLife is the    *)
(* catalogue over several refreshes, with the dialog that reads it and the *)
(* change messages; SpecShutdown is the destructor of PackageManager with  *)
(* a refresh and downloads under way, over every length a stream reports;  *)
(* SpecConstruct is the install click of a row in the steps the thread of  *)
(* the new task can tell apart, with no uninstall and no shutdown;         *)
(* SpecProgress is the downloads of one package over streams of several    *)
(* chunks and every length a stream reports; SpecUninstall is uninstall    *)
(* called at any time of a download.                                       *)
(*                                                                         *)
(* Environment assumptions: File::replaceWithText and                      *)
(* File::deleteRecursively succeed; an archive that extracts creates the   *)
(* folder named after the package; the message loop runs no callback while *)
(* the destructor of PackageManager runs, nor after it.                    *)
(***************************************************************************)
EXTENDS Integers, Sequences, FiniteSets, TLC

\* ---------------------------------------------------------------- bounds
\* DownloadTasks created in one run of the program.
MaxTasks == 2
\* Non-empty chunks one stream delivers before it ends.
MaxChunks == 1

\* ------------------------------------------------------------- constants
\* The status code the constructor of DownloadTask requires.
StatusOK == 200
\* The status code when no connection was made (it is left as initialised).
StatusNone == 0
\* The bytes one call of writeFromInputStream asks for.
ChunkSize == 8192

\* --------------------------------------------------------------- strings
Ascii ==
    << " ", "!", "quote", "#", "$", "%", "&", "'", "(", ")", "*", "+", ",", "-", ".", "/",
       "0", "1", "2", "3", "4", "5", "6", "7", "8", "9", ":", ";", "<", "=", ">", "?",
       "@", "A", "B", "C", "D", "E", "F", "G", "H", "I", "J", "K", "L", "M", "N", "O",
       "P", "Q", "R", "S", "T", "U", "V", "W", "X", "Y", "Z", "[", "backslash", "]", "^", "_",
       "backtick", "a", "b", "c", "d", "e", "f", "g", "h", "i", "j", "k", "l", "m", "n", "o",
       "p", "q", "r", "s", "t", "u", "v", "w", "x", "y", "z", "{", "|", "}", "~" >>

\* The byte of a character (printable ASCII: UTF-8 is one byte each); the
\* three characters a TLA+ string cannot hold are named, and unused.
Ord(c) == 31 + (CHOOSE i \in 1..Len(Ascii) : Ascii[i] = c)

Base64Alphabet ==
    << "A", "B", "C", "D", "E", "F", "G", "H", "I", "J", "K", "L", "M", "N", "O", "P",
       "Q", "R", "S", "T", "U", "V", "W", "X", "Y", "Z", "a", "b", "c", "d", "e", "f",
       "g", "h", "i", "j", "k", "l", "m", "n", "o", "p", "q", "r", "s", "t", "u", "v",
       "w", "x", "y", "z", "0", "1", "2", "3", "4", "5", "6", "7", "8", "9", "+", "/" >>

Pow64(k) == IF k = 0 THEN 1 ELSE IF k = 1 THEN 64 ELSE IF k = 2 THEN 4096 ELSE 262144

\* Base64::toBase64 (String): three bytes make four characters, and = pads.
toBase64(s) ==
    LET n == Len(s)
        B(i) == IF i <= n THEN Ord(s[i]) ELSE 0
        Out(k) ==
            LET g == (k - 1) \div 4
                j == (k - 1) % 4
                triple == B(3 * g + 1) * 65536 + B(3 * g + 2) * 256 + B(3 * g + 3)
            IN  IF j > 0 /\ 3 * g + j > n
                THEN "="
                ELSE Base64Alphabet[((triple \div Pow64(3 - j)) % 64) + 1]
    IN  [k \in 1..(4 * ((n + 2) \div 3)) |-> Out(k)]

\* The first index at which sub occurs in s, 0 when it does not.
IndexOf(s, sub) ==
    LET hits == {i \in 1..(Len(s) - Len(sub) + 1) : SubSeq(s, i, i + Len(sub) - 1) = sub}
    IN  IF hits = {} THEN 0 ELSE CHOOSE i \in hits : \A j \in hits : i <= j

\* The last index at which sub occurs in s, 0 when it does not.
LastIndexOf(s, sub) ==
    LET hits == {i \in 1..(Len(s) - Len(sub) + 1) : SubSeq(s, i, i + Len(sub) - 1) = sub}
    IN  IF hits = {} THEN 0 ELSE CHOOSE i \in hits : \A j \in hits : i >= j

\* A replacement that leaves the string as it is.
replaceNothing(s, from, to) == s

\* String::replaceFirstOccurrenceOf
replaceFirstOccurrenceOf(s, from, to) ==
    LET i == IndexOf(s, from)
    IN  IF i = 0 THEN s
        ELSE SubSeq(s, 1, i - 1) \o to \o SubSeq(s, i + Len(from), Len(s))

\* String::fromLastOccurrenceOf (sub, false, false): the whole string when
\* sub does not occur.
fromLastOccurrenceOf(s, sub) ==
    LET i == LastIndexOf(s, sub)
    IN  IF i = 0 THEN s ELSE SubSeq(s, i + Len(sub), Len(s))

\* String::upToFirstOccurrenceOf (sub, false, false): the whole string when
\* sub does not occur.
upToFirstOccurrenceOf(s, sub) ==
    LET i == IndexOf(s, sub)
    IN  IF i = 0 THEN s ELSE SubSeq(s, 1, i - 1)

\* String::fromFirstOccurrenceOf (sub, false, false): the empty string when
\* sub does not occur.
fromFirstOccurrenceOf(s, sub) ==
    LET i == IndexOf(s, sub)
    IN  IF i = 0 THEN << >> ELSE SubSeq(s, i + Len(sub), Len(s))

\* String::upToLastOccurrenceOf (sub, false, false): the whole string when
\* sub does not occur.
upToLastOccurrenceOf(s, sub) ==
    LET i == LastIndexOf(s, sub)
    IN  IF i = 0 THEN s ELSE SubSeq(s, 1, i - 1)

\* ----------------------------------------------------------- PackageInfo
Sep == << "_" >>

\* The constructor of PackageInfo: packageId is derived from name, version,
\* timestamp and author.
PackageInfo(name, author, timestamp, url, description, version) ==
    [name |-> name, author |-> author, timestamp |-> timestamp, url |-> url,
     description |-> description, version |-> version,
     packageId |-> toBase64(name \o Sep \o version \o Sep \o timestamp \o Sep \o author)]

\* operator== of PackageInfo: "fast compare by ID".
SamePackage(lhs, rhs) == lhs.packageId = rhs.packageId

HttpUrl == << "h", "t", "t", "p", ":", "/", "/", "h", "/", "a", ".", "z" >>
MirrorUrl == << "h", "t", "t", "p", "s", ":", "/", "/", "m", "/", "a", ".", "z" >>

\* The packages the user asks to install: one package, and the same package
\* offered at another URL (the same identifier).
Packages ==
    { PackageInfo(<<"a">>, <<"x">>, <<"2">>, HttpUrl, <<"d">>, <<"2">>),
      PackageInfo(<<"a">>, <<"x">>, <<"2">>, MirrorUrl, <<"d">>, <<"2">>) }

\* The package an earlier run of the program installed: an older version
\* under the same name (another identifier).
InstalledBefore == PackageInfo(<<"a">>, <<"x">>, <<"1">>, MirrorUrl, <<"d">>, <<"1">>)

\* The packages the user may ask to uninstall.
Installable == Packages \cup {InstalledBefore}

\* ------------------------------------------------------------ file system
\* PackageManager::filesystem, the folder the packages are installed in.
filesystem == << "/", "D" >>

\* File::getChildFile
getChildFile(dir, relative) == dir \o << "/" >> \o relative

\* unzippedTo of a task that has not reached uncompressTo.
NotExtracted == << "(not extracted)" >>

\* File(): the file with no path, what a File member is before anything is
\* assigned to it.
DefaultFile == << >>

\* File::getParentDirectory: the path up to its last separator; File() has
\* no parent but itself.
getParentDirectory(file) ==
    IF file = DefaultFile THEN DefaultFile ELSE upToLastOccurrenceOf(file, << "/" >>)


\* The folder the registry entry of a package names (run: extractedPath).
ExtractedPath(info) == getChildFile(filesystem, info.name)

\* -------------------------------------------------------- registry tree
\* A child of packageState: a ValueTree of type info.name with the seven
\* properties addPackageToRegister sets.  obj is the identity of the shared
\* tree object (removeChild finds a child by identity): the number of the
\* task that made it, or -i for the i-th child loaded from the file.
PkgEntry(info, path, obj) ==
    [type |-> info.name, ID |-> info.packageId, Author |-> info.author,
     Timestamp |-> info.timestamp, Description |-> info.description,
     Version |-> info.version, Path |-> path, URL |-> info.url, obj |-> obj]

\* A lookup that takes the first child, whatever its ID.
getFirstChild(tree, id) == IF Len(tree) > 0 THEN 1 ELSE 0

\* ValueTree::getChildWithProperty ("ID", id): the index of the first child
\* whose ID is id, 0 (an invalid tree) when there is none.
getChildWithProperty(tree, id) ==
    LET hits == {i \in 1..Len(tree) : tree[i].ID = id}
    IN  IF hits = {} THEN 0 ELSE CHOOSE i \in hits : \A j \in hits : i <= j

\* ValueTree::indexOf: the index of the child that is the object obj, 0 when
\* it is not a child.
indexOf(tree, obj) ==
    LET hits == {i \in 1..Len(tree) : tree[i].obj = obj}
    IN  IF hits = {} THEN 0 ELSE CHOOSE i \in hits : TRUE

\* A removeChild that removes nothing.
removeNoChild(tree, i) == tree

\* ValueTree::removeChild (index): nothing happens for an index out of range.
removeChildAt(tree, i) ==
    IF i \in 1..Len(tree)
    THEN SubSeq(tree, 1, i - 1) \o SubSeq(tree, i + 1, Len(tree))
    ELSE tree

\* An appendChild that puts the child first.
insertChildFirst(tree, child) == << child >> \o tree

\* ValueTree::appendChild
appendChild(tree, child) == Append(tree, child)

\* ---------------------------------------------------------- registry file
NoFile == [tag |-> "(no file)", children |-> << >>]
NoSnap == [tag |-> "(nothing to write)", children |-> << >>]

\* packageState.toXmlString(): the document written to pkgInfo, one element
\* per child with its properties as attributes; the identity of a tree
\* object is not part of it.
toXmlString(tree) ==
    [tag |-> "pkg_info",
     children |-> [i \in 1..Len(tree) |->
                     [type |-> tree[i].type, ID |-> tree[i].ID,
                      Author |-> tree[i].Author, Timestamp |-> tree[i].Timestamp,
                      Description |-> tree[i].Description,
                      Version |-> tree[i].Version, Path |-> tree[i].Path,
                      URL |-> tree[i].URL]]]

\* A file that is not an XML document.
GarbledFile == [tag |-> "(not xml)", children |-> << >>]

\* The characters XmlDocument reads as part of a tag name: letters, digits
\* and _ - : .
XmlIdentifierChars ==
    { Ascii[i] : i \in 34..59 } \cup { Ascii[i] : i \in 66..91 }
        \cup { Ascii[i] : i \in 17..26 } \cup { "_", "-", ":", "." }

\* The tag XmlDocument reads back is the tag that was written.
isXmlName(name) ==
    /\ Len(name) > 0
    /\ \A i \in 1..Len(name) : name[i] \in XmlIdentifierChars

\* XmlDocument::parse of the text of the file gives an element: the text is
\* a document, and every tag toXmlString wrote (the type of a child, taken
\* as it is from the name of the package) is read back whole.  A tag with
\* any other character in it ends at that character, which is then an
\* illegal character of the element: the parse fails as a whole.
parsesAsXml(file) ==
    /\ file.tag \notin {NoFile.tag, GarbledFile.tag}
    /\ \A i \in 1..Len(file.children) : isXmlName(file.children[i].type)

\* A registry that keeps every child of any document, whatever its root.
LoadAnyTree(file) ==
    [i \in 1..Len(file.children) |->
        [type |-> file.children[i].type, ID |-> file.children[i].ID,
         Author |-> file.children[i].Author,
         Timestamp |-> file.children[i].Timestamp,
         Description |-> file.children[i].Description,
         Version |-> file.children[i].Version, Path |-> file.children[i].Path,
         URL |-> file.children[i].URL, obj |-> 0 - i]]

\* The constructor of PackageManager: the tree read from pkgInfo when the
\* file exists, ValueTree::fromXml gives a valid tree and its type is
\* pkg_info; an empty pkg_info tree otherwise.
LoadRegistry(file) ==
    IF file # NoFile /\ parsesAsXml(file) /\ file.tag = "pkg_info"
    THEN [i \in 1..Len(file.children) |->
            [type |-> file.children[i].type, ID |-> file.children[i].ID,
             Author |-> file.children[i].Author,
             Timestamp |-> file.children[i].Timestamp,
             Description |-> file.children[i].Description,
             Version |-> file.children[i].Version, Path |-> file.children[i].Path,
             URL |-> file.children[i].URL, obj |-> 0 - i]]
    ELSE << >>

\* The registry files the program may find when it starts: none, or the one
\* an earlier run wrote.
InitialFiles ==
    { NoFile,
      toXmlString(<< PkgEntry(InstalledBefore, ExtractedPath(InstalledBefore), 0) >>) }

\* ------------------------------------------------------------------ state
VARIABLES
    pm,            \* the PackageManager: "alive", "closing" (in its destructor), "destroyed"
    packageState,  \* the children of the registry tree, in order
    pkgInfo,       \* the registry file: NoFile or the document last written
    dirs,          \* the package folders on disk
    tasks,         \* every DownloadTask constructed so far, by number
    downloads,     \* the OwnedArray downloads: task numbers, in order
    dying,         \* the task whose destructor runs (in downloads.clear()), or 0
    queue,         \* the callbacks queued by MessageManager::callAsync, in order
    msg,           \* where the message thread is inside uninstall
    calls,         \* history: the observer callbacks run, with the thread that ran them
    mutators,      \* history: the threads that have changed the registry tree
    unchecked,     \* history: install was called for a package that had a task
    server,        \* what deken.puredata.info answers to search.json
    refresher,     \* the thread of PackageManager ("Deken thread") inside run
    allPackages,   \* PackageManager::allPackages, the catalogue
    idCheck,       \* two PackageInfo records and the result of comparing them
    archCheck,     \* a platform tag, the tag with one segment changed, and the
                   \* results of checkArchitecture on them
    storage,       \* the members of the Array allPackages: its block and numUsed
    broadcaster,   \* the ChangeBroadcaster of PackageManager
    deken,         \* the dialog (class Deken)
    log            \* history of the refreshes

\* The variables of the downloads and the registry, and those of the
\* catalogue.
installVars == << pm, packageState, pkgInfo, dirs, tasks, downloads, dying, queue, msg,
                  calls, mutators, unchecked >>
catalogVars == << server, refresher, allPackages, idCheck, archCheck, storage,
                  broadcaster, deken, log >>

\* The variables of the dialog and of the notifications.
dialogVars == << storage, broadcaster, deken, log >>

vars == << pm, packageState, pkgInfo, dirs, tasks, downloads, dying, queue, msg,
           calls, mutators, unchecked, server, refresher, allPackages, idCheck,
           archCheck, storage, broadcaster, deken, log >>

TaskIds == 1..Len(tasks)

\* The stages of the specification, from where a task's thread is.
Downloading == {"check", "read"}
Registering == {"reg_lookup", "reg_remove", "reg_write_removed", "reg_append",
                "reg_write_added"}
\* A thread that is never seen running.
neverRunning(t) == FALSE

\* Thread::isThreadRunning
isThreadRunning(t) == tasks[t].pc \notin {"created", "exited", "cancelled"}

MsgIdle == [pc |-> "idle", target |-> 0, snap |-> NoSnap]

\* The message thread is between two callbacks, free to run the next one.
MessageThreadFree ==
    pm = "alive" /\ msg.pc = "idle" /\ deken.pc \notin {"begin", "end"}

\* The thread of PackageManager at the stage pc of run, before the first
\* library: the library and the variant it is at (g, a), the local results
\* of the library, the local packages of getAvailablePackages, and whether
\* the thread was told to exit.  requests and returned are history: the
\* requests the run has sent to the server, and the return statement that
\* getAvailablePackages left by ("no" while it has not returned).
Refresher(pc) ==
    [pc |-> pc, g |-> 1, a |-> 1, results |-> << >>, packages |-> << >>,
     shouldExit |-> FALSE, requests |-> 0, returned |-> "no"]

\* A thread that never counts as running.
refreshNeverRunning == FALSE

\* Thread::isThreadRunning of PackageManager.
isRefreshRunning == refresher.pc \notin {"exited", "terminated"}

\* No comparison and no platform check is being made.
NoIdCheck == [lhs |-> << >>, rhs |-> << >>, result |-> "none"]
NoArchCheck ==
    [segments |-> << >>, result |-> "none", changed |-> << >>, segment |-> 0,
     changedResult |-> "none"]

\* An Array with no element: no block (0), numUsed 0.  blocks and freed
\* are history: the elements of the arrays assigned to allPackages, in
\* order (the n-th is in block n, when it has an element; an array with no
\* element has no block), and the blocks freed.
EmptyStorage == [block |-> 0, numUsed |-> 0, blocks |-> << >>, freed |-> {}]

\* A ChangeBroadcaster with the given listeners and no message pending.
Broadcaster(listeners) == [listeners |-> listeners, pending |-> FALSE]

\* The dialog: whether it exists, whether its spinner spins, where it is
\* in a loop over allPackages of filterResults ("idle" before the first
\* loop, "done" after a loop), what begin() and end() gave the loop (the
\* blocks they read and the numUsed end() read), and whether the block of
\* begin() was freed when the loop read it.
Dialog(open) ==
    [open |-> open, spinning |-> FALSE, pc |-> "idle", first |-> 0, last |-> 0,
     count |-> 0, dangling |-> FALSE]

\* Nothing has happened: no thread start, no fetch that succeeded, no call
\* of update or click on the refresh button that started no thread, no
\* event the listeners have not been told of, no thread stopped.
NoLog ==
    [starts |-> 0, lastFetched |-> << >>, unserved |-> FALSE, owed |-> FALSE,
     requestsAtStop |-> 0]

\* The dialog has not been opened since the program started.
DialogClosed ==
    /\ storage = EmptyStorage
    /\ broadcaster = Broadcaster({})
    /\ deken = Dialog(FALSE)
    /\ log = NoLog

\* The dialog is open and listens to the PackageManager.
DialogOpen ==
    /\ storage = EmptyStorage
    /\ broadcaster = Broadcaster({"deken"})
    /\ deken = Dialog(TRUE)
    /\ log = NoLog

\* The catalogue is left out: the server cannot be reached and run has
\* returned with no package.
CatalogIdle ==
    /\ server = [search |-> "error", libraries |-> << >>]
    /\ refresher = Refresher("exited")
    /\ allPackages = << >>
    /\ idCheck = NoIdCheck
    /\ archCheck = NoArchCheck

Init ==
    /\ CatalogIdle
    /\ DialogOpen
    /\ pm = "alive"
    /\ pkgInfo \in InitialFiles
    /\ packageState = LoadRegistry(pkgInfo)
    /\ dirs = {packageState[i].Path : i \in 1..Len(packageState)}
    /\ tasks = << >>
    /\ downloads = << >>
    /\ dying = 0
    /\ queue = << >>
    /\ msg = MsgIdle
    /\ calls = {}
    /\ mutators = {}
    /\ unchecked = FALSE

\* ---------------------------------------------------------------- install
\* A lookup that compares the whole record where the source compares
\* the identifier.
getDownloadWithSameInfo(info) ==
    LET hits == {i \in 1..Len(downloads) : tasks[downloads[i]].info = info}
    IN  IF hits = {} THEN 0
        ELSE downloads[CHOOSE i \in hits : \A j \in hits : i <= j]

\* PackageManager::getDownloadForPackage: the first task of downloads whose
\* package equals info, 0 (nullptr) when there is none.
getDownloadForPackage(info) ==
    LET hits == {i \in 1..Len(downloads) : SamePackage(tasks[downloads[i]].info, info)}
    IN  IF hits = {} THEN 0
        ELSE downloads[CHOOSE i \in hits : \A j \in hits : i <= j]

\* A constructor that does not look at the status code.
StartThreadOnAnyStream(hasStream, statusCode) == hasStream

\* The condition under which the constructor of DownloadTask starts the thread.
ShouldStartThread(hasStream, statusCode) == hasStream /\ statusCode = StatusOK

\* The constructor of DownloadTask.  connected, failed and stoppedAt are
\* history: whether the connection attempt succeeded, whether the transfer
\* or the extraction failed, and where the thread was when it was told to
\* exit; unzippedTo is the folder run gave to uncompressTo.  attached says
\* that onProgress and onFinish hold a function: both are empty
\* std::function objects until attachToDownload assigns them.  streamBytes
\* is what the stream will deliver before it ends, whatever it reports.
\* uninstalled is history, kept where uninstall is followed with its
\* tasks (UninstallCall): uninstall was called for the package of the task
\* after the task was made.
DownloadTask(info, destFile, hasStream, statusCode, totalLength) ==
    [info |-> info, destination |-> destFile,
     pc |-> IF ShouldStartThread(hasStream, statusCode) THEN "check" ELSE "created",
     connected |-> hasStream /\ statusCode = StatusOK,
     shouldExit |-> FALSE, totalBytes |-> totalLength, bytesDownloaded |-> 0,
     failed |-> FALSE, snap |-> NoSnap, stoppedAt |-> "never",
     unzippedTo |-> NotExtracted, attached |-> FALSE,
     streamBytes |-> MaxChunks * ChunkSize, uninstalled |-> FALSE]

HttpScheme == << "h", "t", "t", "p", ":", "/", "/" >>
HttpsScheme == << "h", "t", "t", "p", "s", ":", "/", "/" >>

\* The lengths a stream reports: the bytes it will deliver.
TotalLengths == {MaxChunks * ChunkSize}

\* What InputStream::getTotalLength can return to run: the bytes the
\* stream will deliver, -1 when the size is unknown (a response with no
\* Content-Length), and 0.
ReportedLengths == TotalLengths \cup {0 - 1, 0}

\* What a connection attempt that fails leaves: no stream and no status, or
\* the stream of an error page with its status.
FailedConnections ==
    { [hasStream |-> FALSE, statusCode |-> StatusNone],
      [hasStream |-> TRUE, statusCode |-> 404] }

\* The task install constructs: the URL is made https, the file is named
\* after the last part of the URL.
InstallTask(packageInfo, hasStream, statusCode, totalLength) ==
    LET info == [packageInfo EXCEPT
                   !.url = replaceFirstOccurrenceOf(packageInfo.url, HttpScheme, HttpsScheme)]
        filename == fromLastOccurrenceOf(info.url, << "/" >>)
        destFile == getChildFile(filesystem, filename)
    IN  DownloadTask(info, destFile, hasStream, statusCode, totalLength)

\* An attachToDownload that assigns no function.
attachNothing(task) == task

\* DekenRowComponent::attachToDownload: onProgress and onFinish of the task
\* are assigned (the buttons it hides are those InstallClick looks at
\* through getDownloadForPackage).
attachToDownload(task) == [task EXCEPT !.attached = TRUE]

\* PackageManager::install, called on the message thread.  The connection
\* attempt made by the constructor yields a stream or none, and a status;
\* totalLength is what the stream will report to run (0 when there is no
\* stream to ask).
Install(packageInfo, hasStream, statusCode, totalLength) ==
    /\ MessageThreadFree
    /\ Len(tasks) < MaxTasks
    /\ tasks' = Append(tasks, InstallTask(packageInfo, hasStream, statusCode, totalLength))
    /\ downloads' = Append(downloads, Len(tasks) + 1)
    /\ unchecked' = (unchecked \/ getDownloadForPackage(packageInfo) # 0)
    /\ UNCHANGED << pm, packageState, pkgInfo, dirs, dying, queue, msg, calls,
                    mutators >>
    /\ UNCHANGED catalogVars

\* ------------------------------------------------- DownloadTask::run
\* A loop that does not ask whether to exit.
threadNeverExits(t) == FALSE

\* Thread::threadShouldExit, as the worker of task t reads it.
threadShouldExit(t) == tasks[t].shouldExit

\* The top of the loop of run: return when the thread was told to exit.
CheckExit(t) ==
    /\ tasks[t].pc = "check"
    /\ tasks' = [tasks EXCEPT ![t].pc = IF threadShouldExit(t) THEN "cancelled" ELSE "read"]
    /\ UNCHANGED << pm, packageState, pkgInfo, dirs, downloads, dying, queue, msg,
                    calls, mutators, unchecked >>
    /\ UNCHANGED catalogVars

\* A worker that calls onProgress itself.
CallProgressDirectly(t, num, den) ==
    /\ calls' = calls \cup {[kind |-> "progress", task |-> t, thread |-> "worker",
                             success |-> TRUE]}
    /\ UNCHANGED queue

\* MessageManager::callAsync of the progress lambda: the callback is queued
\* for the message thread.
PostProgress(t, num, den) ==
    /\ queue' = Append(queue, [kind |-> "progress", task |-> t, num |-> num, den |-> den,
                                success |-> TRUE])
    /\ UNCHANGED calls

\* MessageManager::callAsync of the completion lambda, which calls
\* onFinish (true).
PostFinish(t) ==
    /\ queue' = Append(queue, [kind |-> "finish", task |-> t, num |-> 0, den |-> 0,
                                success |-> TRUE])
    /\ UNCHANGED calls

\* What one writeFromInputStream returns: a full chunk, or 0 at the end of
\* the stream and 0 as well when the read fails.
Written(outcome) == IF outcome = "data" THEN ChunkSize ELSE 0

\* One pass of the loop after the check: read a chunk, count the bytes and
\* queue the progress.  When nothing was written the loop is left and the
\* archive is extracted, zip.uncompressTo (destination.getParentDirectory()),
\* whose result is not looked at.  An archive that extracts creates the
\* package's folder; the data of a failed read do not extract, and nothing
\* is extracted into the library when destination is still File().  failed
\* records that the transfer or the extraction failed.
ReadChunk(t, outcome, unzipped) ==
    /\ tasks[t].pc = "read"
    /\ outcome = "data" => tasks[t].bytesDownloaded < tasks[t].streamBytes
    /\ outcome = "error" => ~unzipped
    /\ Written(outcome) = 0 /\ unzipped => tasks[t].destination # DefaultFile
    /\ IF Written(outcome) = 0
       THEN /\ tasks' = [tasks EXCEPT
                           ![t].pc = "reg_lookup", ![t].failed = ~unzipped,
                           ![t].unzippedTo = getParentDirectory(tasks[t].destination)]
            /\ dirs' = IF unzipped THEN dirs \cup {ExtractedPath(tasks[t].info)} ELSE dirs
            /\ UNCHANGED << queue, calls >>
       ELSE /\ unzipped
            /\ tasks' = [tasks EXCEPT
                           ![t].pc = "check",
                           ![t].bytesDownloaded = @ + Written(outcome)]
            /\ PostProgress(t, tasks[t].bytesDownloaded + Written(outcome),
                            tasks[t].totalBytes)
            /\ UNCHANGED dirs
    /\ UNCHANGED << pm, packageState, pkgInfo, downloads, dying, msg,
                    mutators, unchecked >>
    /\ UNCHANGED catalogVars

\* ------------------------------------- PackageManager::addPackageToRegister
\* An addPackageToRegister without the duplicate check.
NoExistingEntry(tree, info) == 0

\* Called by run on the worker's own thread.  "Prevent duplicate entries":
\* the child that already has the package's ID, 0 when there is none.
ExistingEntry(tree, info) == getChildWithProperty(tree, info.packageId)

\* The test of the if statement.
RegLookup(t) ==
    /\ tasks[t].pc = "reg_lookup"
    /\ tasks' = [tasks EXCEPT
                   ![t].pc = IF ExistingEntry(packageState, tasks[t].info) # 0
                             THEN "reg_remove" ELSE "reg_append"]
    /\ UNCHANGED << pm, packageState, pkgInfo, dirs, downloads, dying, queue, msg,
                    calls, mutators, unchecked >>
    /\ UNCHANGED catalogVars

\* removeChild (getChildWithProperty (...)): the child is looked up again
\* and removed; valueTreeChildRemoved then takes the document to write.
\* Nothing is removed, and no listener runs, when the child is gone.
RegRemove(t) ==
    /\ tasks[t].pc = "reg_remove"
    /\ LET i == ExistingEntry(packageState, tasks[t].info)
           tree == removeChildAt(packageState, i)
       IN  /\ packageState' = tree
           /\ tasks' = [tasks EXCEPT
                          ![t].pc = IF i # 0 THEN "reg_write_removed" ELSE "reg_append",
                          ![t].snap = IF i # 0 THEN toXmlString(tree) ELSE NoSnap]
           /\ mutators' = IF i # 0 THEN mutators \cup {"worker"} ELSE mutators
    /\ UNCHANGED << pm, pkgInfo, dirs, downloads, dying, queue, msg, calls,
                    unchecked >>
    /\ UNCHANGED catalogVars

\* appendChild (pkgEntry); valueTreeChildAdded then takes the document to write.
RegAppend(t) ==
    /\ tasks[t].pc = "reg_append"
    /\ LET tree == appendChild(packageState,
                               PkgEntry(tasks[t].info, ExtractedPath(tasks[t].info), t))
       IN  /\ packageState' = tree
           /\ tasks' = [tasks EXCEPT ![t].pc = "reg_write_added",
                                     ![t].snap = toXmlString(tree)]
    /\ mutators' = mutators \cup {"worker"}
    /\ UNCHANGED << pm, pkgInfo, dirs, downloads, dying, queue, msg, calls,
                    unchecked >>
    /\ UNCHANGED catalogVars

\* pkgInfo.replaceWithText (...) in valueTreeChildRemoved, on the worker's
\* thread; addPackageToRegister goes on to appendChild.
WriteRemoved(t) ==
    /\ tasks[t].pc = "reg_write_removed"
    /\ pkgInfo' = tasks[t].snap
    /\ tasks' = [tasks EXCEPT ![t].pc = "reg_append", ![t].snap = NoSnap]
    /\ UNCHANGED << pm, packageState, dirs, downloads, dying, queue, msg, calls,
                    mutators, unchecked >>
    /\ UNCHANGED catalogVars

\* pkgInfo.replaceWithText (...) in valueTreeChildAdded, on the worker's
\* thread; addPackageToRegister returns, run queues the completion lambda
\* and the thread exits.
WriteAddedAndFinish(t) ==
    /\ tasks[t].pc = "reg_write_added"
    /\ pkgInfo' = tasks[t].snap
    /\ PostFinish(t)
    /\ tasks' = [tasks EXCEPT ![t].pc = "exited", ![t].snap = NoSnap]
    /\ UNCHANGED << pm, packageState, dirs, downloads, dying, msg, mutators,
                    unchecked >>
    /\ UNCHANGED catalogVars

\* ------------------------------------------------------ the message thread
\* A removal that takes every task out.
removeEveryObject(array, t) == << >>

\* downloads.removeObject (task)
removeObject(array, t) == SelectSeq(array, LAMBDA x : x # t)

\* The message thread runs the callback at the head of the queue: the
\* progress lambda calls onProgress; the completion lambda calls
\* onFinish (true), waits for the thread (which exited when it queued the
\* lambda) and removes the task from downloads, which destroys it.
Deliver ==
    /\ MessageThreadFree
    /\ queue # << >>
    /\ LET m == Head(queue)
       IN  /\ queue' = Tail(queue)
           /\ calls' = calls \cup {[kind |-> m.kind, task |-> m.task,
                                    thread |-> "message", success |-> m.success]}
           /\ downloads' = IF m.kind = "finish"
                           THEN removeObject(downloads, m.task) ELSE downloads
    /\ UNCHANGED << pm, packageState, pkgInfo, dirs, tasks, dying, msg, mutators,
                    unchecked >>
    /\ UNCHANGED catalogVars

\* PackageManager::uninstall, up to deleteRecursively: the child with the
\* package's ID is looked up; when there is one its folder is deleted.
Uninstall(packageInfo) ==
    /\ MessageThreadFree
    /\ LET i == getChildWithProperty(packageState, packageInfo.packageId)
       IN  IF i # 0
           THEN /\ dirs' = dirs \ {packageState[i].Path}
                /\ msg' = [pc |-> "remove", target |-> packageState[i].obj, snap |-> NoSnap]
           ELSE UNCHANGED << dirs, msg >>
    /\ UNCHANGED << pm, packageState, pkgInfo, tasks, downloads, dying, queue,
                    calls, mutators, unchecked >>
    /\ UNCHANGED catalogVars

\* packageState.removeChild (toRemove): the child found is removed, when it
\* still is a child; valueTreeChildRemoved then takes the document to write.
UninstallRemove ==
    /\ msg.pc = "remove"
    /\ LET i == indexOf(packageState, msg.target)
           tree == removeChildAt(packageState, i)
       IN  /\ packageState' = tree
           /\ msg' = IF i # 0
                     THEN [pc |-> "write", target |-> 0, snap |-> toXmlString(tree)]
                     ELSE MsgIdle
           /\ mutators' = IF i # 0 THEN mutators \cup {"message"} ELSE mutators
    /\ UNCHANGED << pm, pkgInfo, dirs, tasks, downloads, dying, queue, calls,
                    unchecked >>
    /\ UNCHANGED catalogVars

\* pkgInfo.replaceWithText (...) in the listener, on the message thread.
UninstallWrite ==
    /\ msg.pc = "write"
    /\ pkgInfo' = msg.snap
    /\ msg' = MsgIdle
    /\ UNCHANGED << pm, packageState, dirs, tasks, downloads, dying, queue, calls,
                    mutators, unchecked >>
    /\ UNCHANGED catalogVars

\* ---------------------------------------------------------------- shutdown
\* The destructor of PackageManager begins (on the message thread).
Shutdown ==
    /\ MessageThreadFree
    /\ pm' = "closing"
    /\ UNCHANGED << packageState, pkgInfo, dirs, tasks, downloads, dying, queue,
                    msg, calls, mutators, unchecked >>
    /\ UNCHANGED catalogVars

\* downloads.clear() takes the last task out of the array and destroys it:
\* the destructor of Thread tells the thread to exit (stopThread).
StopTask ==
    /\ pm = "closing"
    /\ dying = 0
    /\ downloads # << >>
    /\ LET t == downloads[Len(downloads)]
       IN  /\ dying' = t
           /\ downloads' = SubSeq(downloads, 1, Len(downloads) - 1)
           /\ tasks' = [tasks EXCEPT
                          ![t].shouldExit = TRUE,
                          ![t].stoppedAt = IF tasks[t].pc \in Downloading
                                           THEN tasks[t].pc ELSE "later"]
    /\ UNCHANGED << pm, packageState, pkgInfo, dirs, queue, msg, calls, mutators,
                    unchecked >>
    /\ UNCHANGED catalogVars

\* stopThread (-1) returns once the thread has exited; the task is gone.
JoinTask ==
    /\ dying # 0
    /\ ~isThreadRunning(dying)
    /\ dying' = 0
    /\ UNCHANGED << pm, packageState, pkgInfo, dirs, tasks, downloads, queue, msg,
                    calls, mutators, unchecked >>
    /\ UNCHANGED catalogVars

\* stopThread (-1) of the destructor, when the thread of PackageManager
\* runs: the thread is told to exit.
StopRefresher ==
    /\ pm = "closing"
    /\ dying = 0
    /\ downloads = << >>
    /\ isRefreshRunning
    /\ ~refresher.shouldExit
    /\ refresher' = [refresher EXCEPT !.shouldExit = TRUE]
    /\ log' = [log EXCEPT !.requestsAtStop = refresher.requests]
    /\ UNCHANGED << server, allPackages, idCheck, archCheck, storage, broadcaster,
                    deken >>
    /\ UNCHANGED installVars

\* The destructor returns when every task is destroyed and stopThread (-1)
\* has returned, which it does when the thread of PackageManager has exited.
FinishShutdown ==
    /\ pm = "closing"
    /\ dying = 0
    /\ downloads = << >>
    /\ ~isRefreshRunning
    /\ pm' = "destroyed"
    /\ UNCHANGED << packageState, pkgInfo, dirs, tasks, downloads, dying, queue,
                    msg, calls, mutators, unchecked >>
    /\ UNCHANGED catalogVars

\* ------------------------------------------------------------------- Next
Next ==
    \/ \E p \in Packages : \E total \in TotalLengths :
          Install(p, TRUE, StatusOK, total)
    \/ \E p \in Packages : \E c \in FailedConnections :
          Install(p, c.hasStream, c.statusCode, 0)
    \/ \E p \in Installable : Uninstall(p)
    \/ UninstallRemove
    \/ UninstallWrite
    \/ Deliver
    \/ \E t \in TaskIds : CheckExit(t)
    \/ \E t \in TaskIds : \E outcome \in {"data", "eof", "error"} :
          \E unzipped \in BOOLEAN : ReadChunk(t, outcome, unzipped)
    \/ \E t \in TaskIds : RegLookup(t)
    \/ \E t \in TaskIds : RegRemove(t)
    \/ \E t \in TaskIds : RegAppend(t)
    \/ \E t \in TaskIds : WriteRemoved(t)
    \/ \E t \in TaskIds : WriteAddedAndFinish(t)
    \/ Shutdown
    \/ StopTask
    \/ JoinTask
    \/ FinishShutdown

Spec == Init /\ [][Next]_vars

\* ============================================================ the registry
\* The registry over several runs of the program, driven from the list of
\* the dialog.  A run starts with the constructor of PackageManager, which
\* loads the registry file the run before left, and ends with the
\* destructor.
\* ------------------------------------------------------------------------
\* DownloadTasks created in one run of the program, in this specification.
MaxStoreTasks == 1

\* A package whose name has a character that is not a letter or a digit,
\* as many externals have.
TildeUrl == << "h", "t", "t", "p", "s", ":", "/", "/", "m", "/", "t", ".", "z" >>
TildePackage == PackageInfo(<<"a", "~">>, <<"x">>, <<"2">>, TildeUrl, <<"d">>, <<"2">>)

\* The packages the rows of the list are made of: the catalogue's and the
\* installed ones.
StorePackages ==
    { PackageInfo(<<"a">>, <<"x">>, <<"2">>, HttpUrl, <<"d">>, <<"2">>),
      TildePackage, InstalledBefore }

\* A document another program wrote: its root is not pkg_info.
OtherRootFile ==
    [tag |-> "settings",
     children |-> toXmlString(<< PkgEntry(InstalledBefore,
                                          ExtractedPath(InstalledBefore), 0) >>).children]

\* The registry files the first run may find.
StoreFiles == InitialFiles \cup {GarbledFile, OtherRootFile}

\* PackageManager::packageExists
packageExists(info) == getChildWithProperty(packageState, info.packageId) # 0

\* Before the first run: the file and the folders an earlier run left.
StoreInit ==
    /\ CatalogIdle
    /\ DialogClosed
    /\ pm = "destroyed"
    /\ pkgInfo \in StoreFiles
    /\ packageState = << >>
    /\ dirs = {LoadRegistry(pkgInfo)[i].Path : i \in 1..Len(LoadRegistry(pkgInfo))}
    /\ tasks = << >>
    /\ downloads = << >>
    /\ dying = 0
    /\ queue = << >>
    /\ msg = MsgIdle
    /\ calls = {}
    /\ mutators = {}
    /\ unchecked = FALSE

\* The program starts: the constructor of PackageManager loads the registry
\* from pkgInfo.  Nothing of the run before is left but the file and the
\* folders; the histories start again.
StartProgram ==
    /\ pm = "destroyed"
    /\ pm' = "alive"
    /\ packageState' = LoadRegistry(pkgInfo)
    /\ tasks' = << >>
    /\ downloads' = << >>
    /\ dying' = 0
    /\ queue' = << >>
    /\ msg' = MsgIdle
    /\ calls' = {}
    /\ mutators' = {}
    /\ unchecked' = FALSE
    /\ UNCHANGED << pkgInfo, dirs >>
    /\ UNCHANGED catalogVars

\* installButton.onClick and reinstallButton.onClick of a row.  The row of
\* a package that has a task is attached to the task and shows no button.
InstallClick(packageInfo, hasStream, statusCode, totalLength) ==
    /\ Len(tasks) < MaxStoreTasks
    /\ getDownloadForPackage(packageInfo) = 0
    /\ MessageThreadFree
    /\ Len(tasks) < MaxTasks
    /\ tasks' = Append(tasks, attachToDownload(
                                 InstallTask(packageInfo, hasStream, statusCode,
                                             totalLength)))
    /\ downloads' = Append(downloads, Len(tasks) + 1)
    /\ UNCHANGED << pm, packageState, pkgInfo, dirs, dying, queue, msg, calls,
                    mutators, unchecked >>
    /\ UNCHANGED catalogVars

\* uninstallButton.onClick of a row that shows its buttons.
UninstallClick(packageInfo) ==
    /\ getDownloadForPackage(packageInfo) = 0
    /\ Uninstall(packageInfo)

StoreNext ==
    \/ StartProgram
    \/ \E p \in StorePackages : \E total \in TotalLengths :
          InstallClick(p, TRUE, StatusOK, total)
    \/ \E p \in StorePackages : \E c \in FailedConnections :
          InstallClick(p, c.hasStream, c.statusCode, 0)
    \/ \E p \in StorePackages : UninstallClick(p)
    \/ UninstallRemove
    \/ UninstallWrite
    \/ Deliver
    \/ \E t \in TaskIds : CheckExit(t)
    \/ \E t \in TaskIds : \E outcome \in {"data", "eof", "error"} :
          \E unzipped \in BOOLEAN : ReadChunk(t, outcome, unzipped)
    \/ \E t \in TaskIds : RegLookup(t)
    \/ \E t \in TaskIds : RegRemove(t)
    \/ \E t \in TaskIds : RegAppend(t)
    \/ \E t \in TaskIds : WriteRemoved(t)
    \/ \E t \in TaskIds : WriteAddedAndFinish(t)
    \/ Shutdown
    \/ StopTask
    \/ JoinTask
    \/ FinishShutdown

SpecStore == StoreInit /\ [][StoreNext]_vars

\* ========================================================= pure functions
\* The downloads and the registry are left out: the program has started
\* with no registry file and the user asks for nothing.
InstallIdle ==
    /\ pm = "alive"
    /\ pkgInfo = NoFile
    /\ packageState = << >>
    /\ dirs = {}
    /\ tasks = << >>
    /\ downloads = << >>
    /\ dying = 0
    /\ queue = << >>
    /\ msg = MsgIdle
    /\ calls = {}
    /\ mutators = {}
    /\ unchecked = FALSE

\* ------------------------------------------------ PackageInfo::operator==
\* The strings the fields of the compared records are drawn from; one has
\* the character that separates the fields in the identifier.
FieldStrings == { <<"a">>, <<"b">>, <<"a", "_", "a">> }

\* The records compared: name, version, timestamp and author vary.
ComparedInfos ==
    { PackageInfo(name, author, timestamp, MirrorUrl, <<"d">>, version) :
        name \in FieldStrings, author \in FieldStrings,
        timestamp \in FieldStrings, version \in FieldStrings }

IdInit ==
    /\ InstallIdle
    /\ server = [search |-> "error", libraries |-> << >>]
    /\ refresher = Refresher("exited")
    /\ allPackages = << >>
    /\ archCheck = NoArchCheck
    /\ DialogClosed
    /\ idCheck \in [lhs : ComparedInfos, rhs : ComparedInfos, result : {"none"}]

\* lhs == rhs is evaluated.
Compare ==
    /\ idCheck.result = "none"
    /\ idCheck' = [idCheck EXCEPT
                     !.result = IF SamePackage(idCheck.lhs, idCheck.rhs)
                                THEN "equal" ELSE "different"]
    /\ UNCHANGED << server, refresher, allPackages, archCheck >>
    /\ UNCHANGED dialogVars
    /\ UNCHANGED installVars

IdNext == Compare

SpecId == IdInit /\ [][IdNext]_vars

\* ------------------------------------------ PackageManager::checkArchitecture
\* The build modelled: Linux, x86-64, PD_FLOATSIZE 32.
os == << "L", "i", "n", "u", "x" >>
floatsize == << "3", "2" >>
\* The names of every Intel machine, 32-bit ones too.
machineOfAnyIntel ==
    { << "a", "m", "d", "6", "4" >>, << "x", "8", "6", "_", "6", "4" >>,
      << "i", "3", "8", "6" >> }
machine == { << "a", "m", "d", "6", "4" >>, << "x", "8", "6", "_", "6", "4" >> }

\* A check that forgets the machine.
checkOsAndFloatsize(platform) ==
    /\ upToFirstOccurrenceOf(platform, << "-" >>) = os
    /\ fromLastOccurrenceOf(fromFirstOccurrenceOf(platform, << "-" >>), << "-" >>)
           = floatsize

\* PackageManager::checkArchitecture
checkArchitecture(platform) ==
    IF upToFirstOccurrenceOf(platform, << "-" >>) # os
    THEN FALSE
    ELSE LET rest == fromFirstOccurrenceOf(platform, << "-" >>)
         IN  IF fromLastOccurrenceOf(rest, << "-" >>) # floatsize
             THEN FALSE
             ELSE upToLastOccurrenceOf(rest, << "-" >>) \in machine

\* The most segments a platform tag has.
MaxSegments == 4

\* What a segment of a tag may be: the names of systems, machines and
\* float sizes, one in another case, and nothing.
SegmentValues ==
    { << >>, os, << "l", "i", "n", "u", "x" >>, << "D", "a", "r", "w", "i", "n" >>,
      << "a", "m", "d", "6", "4" >>, << "x", "8", "6", "_", "6", "4" >>,
      << "i", "3", "8", "6" >>, floatsize, << "6", "4" >> }

\* The tag made of segments: they are joined by hyphens.
RECURSIVE JoinSegments(_)
JoinSegments(segments) ==
    IF Len(segments) = 0 THEN << >>
    ELSE IF Len(segments) = 1 THEN segments[1]
    ELSE segments[1] \o << "-" >> \o JoinSegments(Tail(segments))

\* The tags checked: archs[0] of a variant, "" when it is null.
PlatformTags ==
    UNION { [1..n -> SegmentValues] : n \in 1..MaxSegments }

ArchInit ==
    /\ InstallIdle
    /\ server = [search |-> "error", libraries |-> << >>]
    /\ refresher = Refresher("exited")
    /\ allPackages = << >>
    /\ idCheck = NoIdCheck
    /\ DialogClosed
    /\ archCheck \in [segments : PlatformTags, result : {"none"}, changed : {<< >>},
                       segment : {0}, changedResult : {"none"}]

\* checkArchitecture (platform) is evaluated.
CheckPlatform ==
    /\ archCheck.result = "none"
    /\ archCheck' = [archCheck EXCEPT
                       !.result = IF checkArchitecture(JoinSegments(archCheck.segments))
                                  THEN "match" ELSE "no match"]
    /\ UNCHANGED << server, refresher, allPackages, idCheck >>
    /\ UNCHANGED dialogVars
    /\ UNCHANGED installVars

\* checkArchitecture is evaluated on a tag that matched with its k-th
\* segment changed to another value.
CheckChanged(k, value) ==
    /\ archCheck.result = "match"
    /\ archCheck.changedResult = "none"
    /\ k \in 1..Len(archCheck.segments)
    /\ value # archCheck.segments[k]
    /\ LET changed == [archCheck.segments EXCEPT ![k] = value]
       IN  archCheck' = [archCheck EXCEPT
                           !.changed = changed,
                           !.segment = k,
                           !.changedResult = IF checkArchitecture(JoinSegments(changed))
                                             THEN "match" ELSE "no match"]
    /\ UNCHANGED << server, refresher, allPackages, idCheck >>
    /\ UNCHANGED dialogVars
    /\ UNCHANGED installVars

ArchNext ==
    \/ CheckPlatform
    \/ \E k \in 1..MaxSegments : \E value \in SegmentValues : CheckChanged(k, value)

SpecArch == ArchInit /\ [][ArchNext]_vars

\* ========================================================== the catalogue
\* PackageManager::run on the thread of PackageManager: getAvailablePackages
\* and the assignment of its result to allPackages.  The answer of the
\* server to search.json is fixed when the run starts; its answer to each
\* info.json request is chosen when the request is made.  Nothing tells the
\* thread to exit in this specification, and nothing listens.
\* ------------------------------------------------------------------------
\* The most variants one version of a library has.
MaxVariants == 2

\* String::compare: negative, zero or positive as lhs sorts before, with or
\* after rhs, character by character.
RECURSIVE compare(_, _)
compare(lhs, rhs) ==
    IF lhs = << >> /\ rhs = << >> THEN 0
    ELSE IF lhs = << >> THEN 0 - 1
    ELSE IF rhs = << >> THEN 1
    ELSE IF Ord(Head(lhs)) # Ord(Head(rhs)) THEN Ord(Head(lhs)) - Ord(Head(rhs))
    ELSE compare(Tail(lhs), Tail(rhs))

MatchingTag == JoinSegments(<< os, << "a", "m", "d", "6", "4" >>, floatsize >>)
OtherTag == JoinSegments(<< << "D", "a", "r", "w", "i", "n" >>, << "a", "m", "d", "6", "4" >>,
                            floatsize >>)

\* The timestamps of the variants; the last one is the greatest as text.
Timestamps == { << "2", "0" >>, << "2", "1" >>, << "9" >> }

\* One element of a version of a library in the answer: archs[0] and the
\* fields getAvailablePackages reads.
Variant(name, version, timestamp, platform) ==
    [name |-> name, author |-> << "x" >>, timestamp |-> timestamp,
     description |-> << "d" >>, url |-> MirrorUrl, version |-> version,
     platform |-> platform]

\* The versions of a library: the variants of each version, one after the
\* other as the loops meet them.
VariantsOf(name, version) ==
    { Variant(name, version, t, p) : t \in Timestamps, p \in {MatchingTag, OtherTag} }

VersionsOf(name, version) ==
    UNION { [1..n -> VariantsOf(name, version)] : n \in 1..MaxVariants }

\* The library "a" with one or two versions, the first of which has the
\* separator in its name; and a second library with one variant, "b" or a
\* library whose identifier can be that of a variant of "a".
FirstLibraries ==
    { [name |-> << "a" >>, variants |-> first] :
        first \in VersionsOf(<< "a" >>, << "a", "_", "a" >>) }
    \cup
    { [name |-> << "a" >>, variants |-> first \o second] :
        first \in VersionsOf(<< "a" >>, << "a", "_", "a" >>),
        second \in [1..1 -> VariantsOf(<< "a" >>, << "2" >>)] }

SecondLibraries ==
    UNION { { [name |-> name, variants |-> second] :
                second \in [1..1 -> VariantsOf(name, << "a" >>)] } :
            name \in { << "b" >>, << "a", "_", "a" >> } }

Catalogues ==
    { << >> } \cup { << first >> : first \in FirstLibraries }
        \cup { << first, second >> : first \in FirstLibraries, second \in SecondLibraries }

\* What the server answers to search.json: nothing (no connection), an
\* empty body, text that is not JSON, JSON of another shape, or the
\* libraries.
ServerAnswers ==
    [search : {"error", "empty", "malformed", "off_schema"}, libraries : {<< >>}]
        \cup [search : {"ok"}, libraries : Catalogues]

\* What it answers to info.json.
InfoAnswers == {"ok", "error", "empty", "malformed", "off_schema"}

\* PackageManager::getObjectInfo: the names of the objects, none when the
\* connection fails, the body is empty or the text is not JSON (the
\* parse_error is caught).
getObjectInfo(answer) == IF answer = "ok" THEN << << "o" >> >> ELSE << >>

\* JSON of another shape makes the library throw an exception that is not
\* a parse_error (a type_error, an out_of_range, an invalid_iterator):
\* the catch clauses of getObjectInfo and getAvailablePackages let it pass.
Throws(answer) == answer = "off_schema"

\* The PackageInfo made of a variant and the names of its objects.
CatalogueEntry(variant, objects) ==
    [info |-> PackageInfo(variant.name, variant.author, variant.timestamp, variant.url,
                          variant.description, variant.version),
     objects |-> objects]

\* An add that does not look for the package.
addAlways(packages, entry) == Append(packages, entry)

\* Array::addIfNotAlreadyThere, with operator== of PackageInfo.
addIfNotAlreadyThere(packages, entry) ==
    IF \E i \in 1..Len(packages) : SamePackage(packages[i].info, entry.info)
    THEN packages
    ELSE Append(packages, entry)

\* The first of the results, as they were added.
FirstAdded(results) == {1}

\* The results std::sort may put first: those no other result sorts before
\* (the order of results with the same timestamp is the library's choice).
SortedFirst(results) ==
    { i \in 1..Len(results) :
        \A j \in 1..Len(results) :
            ~(compare(results[j].info.timestamp, results[i].info.timestamp) > 0) }

RefreshInit ==
    /\ InstallIdle
    /\ idCheck = NoIdCheck
    /\ archCheck = NoArchCheck
    /\ DialogClosed
    /\ server \in ServerAnswers
    /\ refresher = Refresher("fetch")
    /\ allPackages = << >>

\* getAvailablePackages up to the loop: connect, read and parse the answer.
\* Text that is not JSON is caught, and the packages, none, are returned.
FetchCatalogue ==
    /\ refresher.pc = "fetch"
    /\ LET sent == [refresher EXCEPT !.requests = @ + 1]
       IN  refresher' =
              IF server.search \in {"error", "empty"}
              THEN [sent EXCEPT !.pc = "assign", !.packages = << >>,
                                !.returned = server.search]
              ELSE IF refresher.shouldExit
              THEN [sent EXCEPT !.pc = "assign", !.packages = << >>, !.returned = "exit"]
              ELSE IF server.search = "malformed"
              THEN [sent EXCEPT !.pc = "assign", !.packages = << >>,
                                !.returned = "packages"]
              ELSE IF Throws(server.search)
              THEN [sent EXCEPT !.pc = "terminated"]
              ELSE [sent EXCEPT !.pc = "library"]
    /\ UNCHANGED << server, allPackages, idCheck, archCheck >>
    /\ UNCHANGED dialogVars
    /\ UNCHANGED installVars

\* The top of the loop over the libraries: leave it after the last one,
\* return nothing when the thread was told to exit.
NextLibrary ==
    /\ refresher.pc = "library"
    /\ refresher' =
          IF refresher.g > Len(server.libraries)
          THEN [refresher EXCEPT !.pc = "assign", !.returned = "packages"]
          ELSE IF refresher.shouldExit
          THEN [refresher EXCEPT !.pc = "assign", !.packages = << >>, !.returned = "exit"]
          ELSE [refresher EXCEPT !.pc = "variant", !.a = 1, !.results = << >>]
    /\ UNCHANGED << server, allPackages, idCheck, archCheck >>
    /\ UNCHANGED dialogVars
    /\ UNCHANGED installVars

\* The body of the loops over the versions and their variants, for one
\* variant: when its platform matches, its objects are asked for and it is
\* added to the results.
ReadVariant(answer) ==
    /\ refresher.pc = "variant"
    /\ refresher.a <= Len(server.libraries[refresher.g].variants)
    /\ LET variant == server.libraries[refresher.g].variants[refresher.a]
       IN  IF ~checkArchitecture(variant.platform)
           THEN /\ answer = "ok"
                /\ refresher' = [refresher EXCEPT !.a = @ + 1]
           ELSE IF Throws(answer)
           THEN refresher' = [refresher EXCEPT !.pc = "terminated", !.requests = @ + 1]
           ELSE refresher' =
                   [refresher EXCEPT
                      !.a = @ + 1,
                      !.requests = @ + 1,
                      !.results = Append(@, CatalogueEntry(variant, getObjectInfo(answer)))]
    /\ UNCHANGED << server, allPackages, idCheck, archCheck >>
    /\ UNCHANGED dialogVars
    /\ UNCHANGED installVars

\* After the last variant of a library: the results are sorted, the latest
\* first, and the first is added to the packages unless it is there.
SelectLatest(first) ==
    /\ refresher.pc = "variant"
    /\ refresher.a > Len(server.libraries[refresher.g].variants)
    /\ IF refresher.results = << >>
       THEN /\ first = 1
            /\ refresher' = [refresher EXCEPT !.pc = "library", !.g = @ + 1]
       ELSE /\ first \in SortedFirst(refresher.results)
            /\ refresher' =
                  [refresher EXCEPT
                     !.pc = "library", !.g = @ + 1,
                     !.packages = addIfNotAlreadyThere(@, refresher.results[first])]
    /\ UNCHANGED << server, allPackages, idCheck, archCheck >>
    /\ UNCHANGED dialogVars
    /\ UNCHANGED installVars

\* A broadcaster that sends nothing.
sendNoMessage(b) == b

\* ChangeBroadcaster::sendChangeMessage: an asynchronous update is
\* triggered when there is a listener; updates that are pending coalesce.
sendChangeMessage(b) == [b EXCEPT !.pending = @ \/ b.listeners # {}]

\* The fetch of a run succeeded when getAvailablePackages returned the
\* packages it had read (none for an empty or malformed body), not when
\* the connection failed or the thread was told to exit.
FetchSucceeded == refresher.returned \in {"packages", "empty"}

\* The blocks that hold elements and are not the block of the array.
StaleBlocks ==
    { n \in 1..Len(storage.blocks) : storage.blocks[n] # << >> } \ {storage.block}

\* run: allPackages = getAvailablePackages().  The move assignment of Array
\* moves the old members to a temporary and swaps the members one by one,
\* under a DummyCriticalSection, which locks nothing.  First the pointer
\* to the elements.
SwapElements ==
    /\ refresher.pc = "assign"
    /\ allPackages' = refresher.packages
    /\ storage' = [storage EXCEPT
                     !.block = IF refresher.packages = << >> THEN 0
                               ELSE Len(storage.blocks) + 1,
                     !.blocks = Append(@, refresher.packages)]
    /\ log' = [log EXCEPT
                 !.lastFetched = IF FetchSucceeded THEN refresher.packages ELSE @]
    /\ refresher' = [refresher EXCEPT !.pc = "swap_used"]
    /\ UNCHANGED << server, idCheck, archCheck, broadcaster, deken >>
    /\ UNCHANGED installVars

\* Then numUsed.
SwapNumUsed ==
    /\ refresher.pc = "swap_used"
    /\ storage' = [storage EXCEPT !.numUsed = Len(allPackages)]
    /\ refresher' = [refresher EXCEPT !.pc = "free"]
    /\ UNCHANGED << server, allPackages, idCheck, archCheck, broadcaster, deken, log >>
    /\ UNCHANGED installVars

\* The temporary is destroyed: the elements the array had are destroyed
\* and their block is freed.  The catalogue has been replaced; the
\* listeners there are have not been told yet.
FreeStorage ==
    /\ refresher.pc = "free"
    /\ storage' = [storage EXCEPT !.freed = @ \cup StaleBlocks]
    /\ log' = [log EXCEPT !.owed = @ \/ broadcaster.listeners # {}]
    /\ refresher' = [refresher EXCEPT !.pc = "notify"]
    /\ UNCHANGED << server, allPackages, idCheck, archCheck, broadcaster, deken >>
    /\ UNCHANGED installVars

\* run: sendChangeMessage(), on the thread of PackageManager.
SendChange ==
    /\ refresher.pc = "notify"
    /\ broadcaster' = sendChangeMessage(broadcaster)
    /\ refresher' = [refresher EXCEPT !.pc = "leaving"]
    /\ UNCHANGED << server, allPackages, idCheck, archCheck, storage, deken, log >>
    /\ UNCHANGED installVars

\* run returns and the thread exits: isThreadRunning is false from here.
ExitThread ==
    /\ refresher.pc = "leaving"
    /\ refresher' = [refresher EXCEPT !.pc = "exited"]
    /\ UNCHANGED << server, allPackages, idCheck, archCheck >>
    /\ UNCHANGED dialogVars
    /\ UNCHANGED installVars

RefreshNext ==
    \/ FetchCatalogue
    \/ NextLibrary
    \/ \E answer \in InfoAnswers : ReadVariant(answer)
    \/ \E first \in 1..(MaxVariants + 1) : SelectLatest(first)
    \/ SwapElements
    \/ SwapNumUsed
    \/ FreeStorage
    \/ SendChange
    \/ ExitThread

SpecRefresh == RefreshInit /\ [][RefreshNext]_vars

\* ================================================ the life of the catalogue
\* The thread of PackageManager from the constructor to the destructor, with
\* the dialog: the refresh button and update start the thread again, the
\* dialog listens to the change messages and reads allPackages in
\* filterResults while the thread may be assigning it.  The answer of the
\* server to search.json is chosen when the thread starts.  The user asks
\* for no install.
\* ------------------------------------------------------------------------
\* The most times the thread is started.
MaxRefreshes == 2

\* A library with two variants for this platform.
LifeLibrary ==
    [name |-> << "a" >>,
     variants |-> << Variant(<< "a" >>, << "a", "_", "a" >>, << "2", "0" >>, MatchingTag),
                     Variant(<< "a" >>, << "a", "_", "a" >>, << "2", "1" >>, MatchingTag) >>]

\* The answers to search.json here: no connection, an empty body, no
\* library, one library.  They are among ServerAnswers.
LifeAnswers ==
    [search : {"error", "empty"}, libraries : {<< >>}]
        \cup [search : {"ok"}, libraries : {<< >>, << LifeLibrary >>}]

\* The state the constructor of PackageManager leaves: sendChangeMessage()
\* found no listener, startThread() started the thread.
LifeInit ==
    /\ InstallIdle
    /\ idCheck = NoIdCheck
    /\ archCheck = NoArchCheck
    /\ server \in LifeAnswers
    /\ refresher = Refresher("fetch")
    /\ allPackages = << >>
    /\ storage = EmptyStorage
    /\ broadcaster = Broadcaster({})
    /\ deken = Dialog(FALSE)
    /\ log = [NoLog EXCEPT !.starts = 1]

\* Thread::startThread: the exit flag is reset, and the thread is launched
\* when it is not running; a running thread is left to run.
startThread(answer) ==
    IF isRefreshRunning
    THEN /\ answer = server
         /\ refresher' = [refresher EXCEPT !.shouldExit = FALSE]
         /\ UNCHANGED server
    ELSE /\ log.starts < MaxRefreshes
         /\ refresher' = Refresher("fetch")
         /\ server' = answer

\* What a request for a refresh leaves in the history: a thread start, or a
\* request made while the thread ran; and a start the listeners are to be
\* told of.
Requested ==
    [log EXCEPT
       !.starts = IF isRefreshRunning THEN @ ELSE @ + 1,
       !.unserved = isRefreshRunning,
       !.owed = @ \/ (~isRefreshRunning /\ broadcaster.listeners # {})]

\* PackageManager::update, on the message thread.
Update(answer) ==
    /\ MessageThreadFree
    /\ broadcaster' = sendChangeMessage(broadcaster)
    /\ startThread(answer)
    /\ log' = Requested
    /\ UNCHANGED << allPackages, idCheck, archCheck, storage, deken >>
    /\ UNCHANGED installVars

\* refreshButton.onClick of the dialog.
RefreshClick(answer) ==
    /\ MessageThreadFree
    /\ deken.open
    /\ startThread(answer)
    /\ broadcaster' = sendChangeMessage(broadcaster)
    /\ log' = Requested
    /\ UNCHANGED << allPackages, idCheck, archCheck, storage, deken >>
    /\ UNCHANGED installVars

\* The constructor of Deken: the spinner is started when the thread runs,
\* the dialog is added to the listeners; filterResults, with no query,
\* does not read allPackages.
OpenDialog ==
    /\ MessageThreadFree
    /\ ~deken.open
    /\ deken' = [deken EXCEPT !.open = TRUE, !.spinning = isRefreshRunning]
    /\ broadcaster' = [broadcaster EXCEPT !.listeners = @ \cup {"deken"}]
    /\ UNCHANGED << server, refresher, allPackages, idCheck, archCheck, storage, log >>
    /\ UNCHANGED installVars

\* The asynchronous update of the broadcaster runs on the message thread
\* and calls Deken::changeListenerCallback, which reads isThreadRunning.
changeListenerCallback ==
    /\ MessageThreadFree
    /\ broadcaster.pending
    /\ broadcaster' = [broadcaster EXCEPT !.pending = FALSE]
    /\ deken' = [deken EXCEPT !.spinning = isRefreshRunning]
    /\ log' = [log EXCEPT !.owed = FALSE]
    /\ UNCHANGED << server, refresher, allPackages, idCheck, archCheck, storage >>
    /\ UNCHANGED installVars

\* Deken::filterResults with a query, a loop "for (result : allPackages)":
\* begin() reads the pointer to the elements.
FilterBegin ==
    /\ MessageThreadFree
    /\ deken.open
    /\ deken' = [deken EXCEPT !.pc = "begin", !.first = storage.block, !.last = 0,
                               !.count = 0, !.dangling = FALSE]
    /\ UNCHANGED << server, refresher, allPackages, idCheck, archCheck, storage,
                    broadcaster, log >>
    /\ UNCHANGED installVars

\* end() reads the pointer and numUsed.
FilterEnd ==
    /\ deken.pc = "begin"
    /\ deken' = [deken EXCEPT !.pc = "end", !.last = storage.block,
                               !.count = storage.numUsed]
    /\ UNCHANGED << server, refresher, allPackages, idCheck, archCheck, storage,
                    broadcaster, log >>
    /\ UNCHANGED installVars

\* The loop reads the elements from begin() to end().
FilterLoop ==
    /\ deken.pc = "end"
    /\ deken' = [deken EXCEPT !.pc = "done", !.dangling = deken.first \in storage.freed]
    /\ UNCHANGED << server, refresher, allPackages, idCheck, archCheck, storage,
                    broadcaster, log >>
    /\ UNCHANGED installVars

LifeNext ==
    \/ FetchCatalogue
    \/ NextLibrary
    \/ \E answer \in {"ok", "error"} : ReadVariant(answer)
    \/ \E first \in 1..MaxVariants : SelectLatest(first)
    \/ SwapElements
    \/ SwapNumUsed
    \/ FreeStorage
    \/ SendChange
    \/ ExitThread
    \/ \E answer \in LifeAnswers : Update(answer)
    \/ \E answer \in LifeAnswers : RefreshClick(answer)
    \/ OpenDialog
    \/ changeListenerCallback
    \/ FilterBegin
    \/ FilterEnd
    \/ FilterLoop
    \/ Shutdown
    \/ StopRefresher
    \/ FinishShutdown

SpecLife == LifeInit /\ [][LifeNext]_vars

\* ============================================================ the shutdown
\* The destructor of PackageManager, with the first run of its thread and
\* the downloads the rows of the dialog have started: webstream->cancel(),
\* downloads.clear(), stopThread (-1).  The dialog asks for no refresh and
\* reads no catalogue here.
\* ------------------------------------------------------------------------
ShutdownInit ==
    /\ pm = "alive"
    /\ pkgInfo \in InitialFiles
    /\ packageState = LoadRegistry(pkgInfo)
    /\ dirs = {packageState[i].Path : i \in 1..Len(packageState)}
    /\ tasks = << >>
    /\ downloads = << >>
    /\ dying = 0
    /\ queue = << >>
    /\ msg = MsgIdle
    /\ calls = {}
    /\ mutators = {}
    /\ unchecked = FALSE
    /\ idCheck = NoIdCheck
    /\ archCheck = NoArchCheck
    /\ server \in LifeAnswers
    /\ refresher = Refresher("fetch")
    /\ allPackages = << >>
    /\ storage = EmptyStorage
    /\ broadcaster = Broadcaster({"deken"})
    /\ deken = [Dialog(TRUE) EXCEPT !.spinning = TRUE]
    /\ log = [NoLog EXCEPT !.starts = 1]

ShutdownNext ==
    \/ FetchCatalogue
    \/ NextLibrary
    \/ \E answer \in {"ok", "error"} : ReadVariant(answer)
    \/ \E first \in 1..MaxVariants : SelectLatest(first)
    \/ SwapElements
    \/ SwapNumUsed
    \/ FreeStorage
    \/ SendChange
    \/ ExitThread
    \/ \E p \in Installable : \E total \in ReportedLengths :
          InstallClick(p, TRUE, StatusOK, total)
    \/ \E p \in Installable : \E c \in FailedConnections :
          InstallClick(p, c.hasStream, c.statusCode, 0)
    \/ Deliver
    \/ \E t \in TaskIds : CheckExit(t)
    \/ \E t \in TaskIds : \E outcome \in {"data", "eof", "error"} :
          \E unzipped \in BOOLEAN : ReadChunk(t, outcome, unzipped)
    \/ \E t \in TaskIds : RegLookup(t)
    \/ \E t \in TaskIds : RegRemove(t)
    \/ \E t \in TaskIds : RegAppend(t)
    \/ \E t \in TaskIds : WriteRemoved(t)
    \/ \E t \in TaskIds : WriteAddedAndFinish(t)
    \/ Shutdown
    \/ StopTask
    \/ JoinTask
    \/ StopRefresher
    \/ FinishShutdown

SpecShutdown == ShutdownInit /\ [][ShutdownNext]_vars

\* ------------------------------------------- the constructor of DownloadTask
\* installButton.onClick and reinstallButton.onClick of a row, in the steps
\* the thread of the new task can tell apart.  First the constructor as far
\* as startThread: the members named in the initialiser list are set, the
\* connection is made and the thread is started; destination is still
\* File().  The task is not in downloads before the constructor returns.
ConstructTask(packageInfo, hasStream, statusCode, totalLength) ==
    /\ MessageThreadFree
    /\ Len(tasks) < MaxTasks
    /\ getDownloadForPackage(packageInfo) = 0
    /\ tasks' = Append(tasks, [InstallTask(packageInfo, hasStream, statusCode, totalLength)
                                 EXCEPT !.destination = DefaultFile])
    /\ msg' = [pc |-> "construct", target |-> Len(tasks) + 1, snap |-> NoSnap]
    /\ UNCHANGED << pm, packageState, pkgInfo, dirs, downloads, dying, queue, calls,
                    mutators, unchecked >>
    /\ UNCHANGED catalogVars

\* The file install computes for a package and hands to the constructor.
DestinationOf(info) ==
    getChildFile(filesystem, fromLastOccurrenceOf(info.url, << "/" >>))

\* "destination = destFile;", the last statement of the constructor; then
\* install adds the task to downloads and returns it to the click handler.
AssignDestination ==
    /\ msg.pc = "construct"
    /\ tasks' = [tasks EXCEPT
                   ![msg.target].destination = DestinationOf(tasks[msg.target].info)]
    /\ downloads' = Append(downloads, msg.target)
    /\ msg' = [msg EXCEPT !.pc = "attach"]
    /\ UNCHANGED << pm, packageState, pkgInfo, dirs, dying, queue, calls, mutators,
                    unchecked >>
    /\ UNCHANGED catalogVars

\* The click handler goes on with attachToDownload (downloadTask) and
\* returns to the message loop.
AttachToDownload ==
    /\ msg.pc = "attach"
    /\ tasks' = [tasks EXCEPT ![msg.target] = attachToDownload(@)]
    /\ msg' = MsgIdle
    /\ UNCHANGED << pm, packageState, pkgInfo, dirs, downloads, dying, queue, calls,
                    mutators, unchecked >>
    /\ UNCHANGED catalogVars

ConstructNext ==
    \/ \E p \in Installable : \E total \in TotalLengths :
          ConstructTask(p, TRUE, StatusOK, total)
    \/ \E p \in Installable : \E c \in FailedConnections :
          ConstructTask(p, c.hasStream, c.statusCode, 0)
    \/ AssignDestination
    \/ AttachToDownload
    \/ Deliver
    \/ \E t \in TaskIds : CheckExit(t)
    \/ \E t \in TaskIds : \E outcome \in {"data", "eof", "error"} :
          \E unzipped \in BOOLEAN : ReadChunk(t, outcome, unzipped)
    \/ \E t \in TaskIds : RegLookup(t)
    \/ \E t \in TaskIds : RegRemove(t)
    \/ \E t \in TaskIds : RegAppend(t)
    \/ \E t \in TaskIds : WriteRemoved(t)
    \/ \E t \in TaskIds : WriteAddedAndFinish(t)

SpecConstruct == Init /\ [][ConstructNext]_vars

\* ------------------------------------------------ the progress of a download
\* Chunks a stream delivers in the specification of the progress.
MaxStreamChunks == 2

\* The package whose download is followed.
ProgressPackage == PackageInfo(<<"a">>, <<"x">>, <<"2">>, MirrorUrl, <<"d">>, <<"2">>)

\* installButton.onClick for a stream of the given number of chunks, which
\* reports its length, or -1, or 0.
ProgressClick(chunks, totalLength) ==
    /\ MessageThreadFree
    /\ Len(tasks) < MaxTasks
    /\ getDownloadForPackage(ProgressPackage) = 0
    /\ totalLength \in {chunks * ChunkSize, 0 - 1, 0}
    /\ tasks' = Append(tasks, [attachToDownload(
                                  InstallTask(ProgressPackage, TRUE, StatusOK, totalLength))
                                 EXCEPT !.streamBytes = chunks * ChunkSize])
    /\ downloads' = Append(downloads, Len(tasks) + 1)
    /\ UNCHANGED << pm, packageState, pkgInfo, dirs, dying, queue, msg, calls,
                    mutators, unchecked >>
    /\ UNCHANGED catalogVars

ProgressNext ==
    \/ \E chunks \in 1..MaxStreamChunks :
          \E totalLength \in {chunks * ChunkSize, 0 - 1, 0} :
             ProgressClick(chunks, totalLength)
    \/ Deliver
    \/ \E t \in TaskIds : CheckExit(t)
    \/ \E t \in TaskIds : \E outcome \in {"data", "eof", "error"} :
          \E unzipped \in BOOLEAN : ReadChunk(t, outcome, unzipped)
    \/ \E t \in TaskIds : RegLookup(t)
    \/ \E t \in TaskIds : RegRemove(t)
    \/ \E t \in TaskIds : RegAppend(t)
    \/ \E t \in TaskIds : WriteRemoved(t)
    \/ \E t \in TaskIds : WriteAddedAndFinish(t)

SpecProgress == Init /\ [][ProgressNext]_vars

\* --------------------------------------- uninstall of a package with a task
\* PackageManager::uninstall as in Uninstall, with its history: the tasks
\* of the package that exist at the call are marked.
UninstallCall(packageInfo) ==
    /\ MessageThreadFree
    /\ LET i == getChildWithProperty(packageState, packageInfo.packageId)
       IN  IF i # 0
           THEN /\ dirs' = dirs \ {packageState[i].Path}
                /\ msg' = [pc |-> "remove", target |-> packageState[i].obj, snap |-> NoSnap]
           ELSE UNCHANGED << dirs, msg >>
    /\ tasks' = [t \in TaskIds |->
                    IF SamePackage(tasks[t].info, packageInfo)
                    THEN [tasks[t] EXCEPT !.uninstalled = TRUE] ELSE tasks[t]]
    /\ UNCHANGED << pm, packageState, pkgInfo, downloads, dying, queue,
                    calls, mutators, unchecked >>
    /\ UNCHANGED catalogVars

UninstallNext ==
    \/ \E p \in Installable : \E total \in TotalLengths :
          Len(tasks) < MaxStoreTasks /\ Install(p, TRUE, StatusOK, total)
    \/ \E p \in Installable : \E c \in FailedConnections :
          Len(tasks) < MaxStoreTasks /\ Install(p, c.hasStream, c.statusCode, 0)
    \/ \E p \in Installable : UninstallCall(p)
    \/ UninstallRemove
    \/ UninstallWrite
    \/ Deliver
    \/ \E t \in TaskIds : CheckExit(t)
    \/ \E t \in TaskIds : \E outcome \in {"data", "eof", "error"} :
          \E unzipped \in BOOLEAN : ReadChunk(t, outcome, unzipped)
    \/ \E t \in TaskIds : RegLookup(t)
    \/ \E t \in TaskIds : RegRemove(t)
    \/ \E t \in TaskIds : RegAppend(t)
    \/ \E t \in TaskIds : WriteRemoved(t)
    \/ \E t \in TaskIds : WriteAddedAndFinish(t)

SpecUninstall == Init /\ [][UninstallNext]_vars




\* ------------------------------------------------------------------ claims
\* The indices of the registry entries with identifier id.
EntriesOf(tree, id) == {i \in 1..Len(tree) : tree[i].ID = id}

\* Task t has put nothing in the registry and has not completed: no entry
\* is its own, no completion is queued for it and none was run.
NoCompletion(t) ==
    /\ \A i \in 1..Len(packageState) : packageState[i].obj # t
    /\ \A i \in 1..Len(queue) : ~(queue[i].task = t /\ queue[i].kind = "finish")
    /\ \A c \in calls : ~(c.task = t /\ c.kind = "finish")

\* C1: in every reachable state the registry holds at most one entry per
\* package identifier.
C1_RegistryUniqueById ==
    \A i, j \in 1..Len(packageState) :
        packageState[i].ID = packageState[j].ID => i = j

C3_FailedTaskReportsFailure ==
    \A t \in TaskIds :
        tasks[t].failed
            => /\ \A i \in 1..Len(packageState) : packageState[i].obj # t
               /\ \A i \in 1..Len(queue) :
                     (queue[i].task = t /\ queue[i].kind = "finish") => ~queue[i].success
               /\ \A c \in calls : (c.task = t /\ c.kind = "finish") => ~c.success

\* Nothing is running and nothing is queued: no callback will run unless
\* the user asks for something.
Quiescent ==
    /\ msg.pc = "idle"
    /\ queue = << >>
    /\ \A t \in TaskIds : ~isThreadRunning(t)

\* C4: an install whose connection attempt failed is reported as a failure:
\* once nothing is left to run, the terminal callback of its task has been
\* called with false.
C4_FailedConnectionIsReported ==
    Quiescent =>
        \A t \in TaskIds :
            ~tasks[t].connected
                => \E c \in calls : c.task = t /\ c.kind = "finish" /\ ~c.success

\* C5: a task whose connection attempt gave no stream or a status other
\* than 200 stays where the constructor left it, downloads nothing, and no
\* progress callback of it is queued or run.
C5_FailedConnectionNeverDownloads ==
    \A t \in TaskIds :
        ~tasks[t].connected
            => /\ tasks[t].pc = "created"
               /\ tasks[t].bytesDownloaded = 0
               /\ \A i \in 1..Len(queue) : queue[i].task # t
               /\ \A c \in calls : c.task # t

\* C5 witness: a task whose connection failed sits in downloads while the
\* progress of another task has been reported.
C5_Witness ==
    \E t, u \in TaskIds :
        /\ ~tasks[t].connected
        /\ getDownloadForPackage(tasks[t].info) = t
        /\ \E c \in calls : c.task = u /\ c.kind = "progress"

\* C6: every progress and terminal callback runs on the message thread.
C6_CallbacksOnMessageThread == \A c \in calls : c.thread = "message"

\* C6 witness: the progress and the completion of a task have been run.
C6_Witness ==
    \E t \in TaskIds :
        /\ \E c \in calls : c.task = t /\ c.kind = "progress"
        /\ \E c \in calls : c.task = t /\ c.kind = "finish"

\* C7: the registry tree is changed by the message thread only.
C7_RegistryMutatedOnMessageThread == mutators \subseteq {"message"}

\* C8, as stated: downloads never holds two tasks for one identifier.
C8_OneTaskPerIdentifier ==
    \A i, j \in 1..Len(downloads) :
        SamePackage(tasks[downloads[i]].info, tasks[downloads[j]].info) => i = j

\* C8, amended: downloads never holds two tasks for one identifier as long
\* as install is only called for packages getDownloadForPackage finds no
\* task for.
C8_OneTaskPerCheckedIdentifier == ~unchecked => C8_OneTaskPerIdentifier

\* C8 witness: a package was installed again after its first task was
\* removed from downloads.
C8_Witness ==
    /\ ~unchecked
    /\ Len(tasks) = 2
    /\ SamePackage(tasks[1].info, tasks[2].info)
    /\ downloads = << 2 >>

\* C9: when a package is installed by one task at a time, the entry a task
\* appends is the only entry of its identifier, with that task's URL and
\* path.
C9_SecondInstallReplaces ==
    [][\A t \in TaskIds :
          (~unchecked /\ tasks[t].pc = "reg_append" /\ tasks'[t].pc # "reg_append")
              => LET hits == EntriesOf(packageState', tasks[t].info.packageId)
                 IN  /\ Cardinality(hits) = 1
                     /\ \A i \in hits :
                           /\ packageState'[i].URL = tasks[t].info.url
                           /\ packageState'[i].Path = ExtractedPath(tasks[t].info)
                           /\ packageState'[i].obj = t]_vars

\* C9 witness: the second of two installs of one package from different
\* URLs, made one after the other, has replaced the entry of the first.
C9_Witness ==
    /\ ~unchecked
    /\ Len(tasks) = 2
    /\ SamePackage(tasks[1].info, tasks[2].info)
    /\ tasks[1].info.url # tasks[2].info.url
    /\ \E c \in calls : c.task = 1 /\ c.kind = "finish"
    /\ tasks[2].pc = "exited"
    /\ \E i \in 1..Len(packageState) :
          /\ packageState[i].obj = 2
          /\ packageState[i].URL = tasks[2].info.url
    /\ Cardinality(EntriesOf(packageState, tasks[2].info.packageId)) = 1

\* No thread is inside a registry operation.
NoMutationInProgress ==
    /\ msg.pc = "idle"
    /\ \A t \in TaskIds : tasks[t].pc \notin Registering

\* C10: whenever no registry mutation is in progress the entries of the
\* registry file are the entries of the registry tree.
C10_FileEqualsRegistry ==
    NoMutationInProgress => pkgInfo.children = toXmlString(packageState).children

\* ------------------------------------------------- claims on the registry
\* The step is the start of a run: the constructor has loaded the registry.
Reloaded == pm = "destroyed" /\ pm' = "alive"

\* The PackageInfo the dialog makes of a registry entry (filterResults).
InfoOf(child) ==
    PackageInfo(child.type, child.Author, child.Timestamp, child.URL,
                child.Description, child.Version)

\* C11: a registry document the program wrote and then loads in a new run
\* gives the entries that were written, in their order and with their ID,
\* Author, Timestamp, Description, Version, Path and URL, and the identifier
\* computed again from each loaded entry is its stored ID.
C11_RoundTrip ==
    [][(Reloaded /\ pkgInfo.tag = "pkg_info")
          => /\ toXmlString(packageState').children = pkgInfo.children
             /\ \A i \in 1..Len(packageState') :
                   InfoOf(packageState'[i]).packageId = packageState'[i].ID]_vars

\* The file is absent, is not a document that parses, or has another root.
BadFile(file) == file = NoFile \/ ~parsesAsXml(file) \/ file.tag # "pkg_info"

\* C12: a run that finds the registry file absent, unparsable or with a
\* root other than pkg_info starts with an empty registry, and the first
\* change made to that registry is written to the file as a pkg_info
\* document that holds entries of the registry, at least one.
C12_BadFileLoadsEmpty ==
    [][/\ (Reloaded /\ BadFile(pkgInfo))
            => (pm' = "alive" /\ packageState' = << >>)
       /\ (BadFile(pkgInfo) /\ pkgInfo' # pkgInfo /\ pkgInfo.tag # "pkg_info")
            => /\ pkgInfo'.tag = "pkg_info"
               /\ Len(pkgInfo'.children) >= 1
               /\ \A i \in 1..Len(pkgInfo'.children) :
                     \E j \in 1..Len(packageState') :
                        toXmlString(<< packageState'[j] >>).children[1]
                            = pkgInfo'.children[i]]_vars

\* C12 witness: a run found a document with another root, which has a
\* child, and started empty: the entry a task has just appended is the only
\* one, and is about to be written.
C12_Witness ==
    /\ pm = "alive"
    /\ pkgInfo = OtherRootFile
    /\ \E t \in TaskIds :
          /\ tasks[t].pc = "reg_write_added"
          /\ Len(packageState) = 1
          /\ packageState[1].obj = t

\* C13: uninstall for a package whose identifier has no registry entry
\* changes neither the registry, nor the registry file, nor any folder, and
\* leaves the message thread where it was.
C13_UninstallAbsentIsNoOp ==
    [][\A p \in StorePackages :
          (EntriesOf(packageState, p.packageId) = {} /\ UninstallClick(p))
              => UNCHANGED << packageState, pkgInfo, dirs, msg >>]_vars

\* C13 witness: the registry has an entry with its folder, the message
\* thread is free, and the dialog has a row with buttons for a package
\* with no entry.
C13_Witness ==
    /\ MessageThreadFree
    /\ packageState # << >>
    /\ \A i \in 1..Len(packageState) : packageState[i].Path \in dirs
    /\ \E p \in StorePackages :
          /\ EntriesOf(packageState, p.packageId) = {}
          /\ getDownloadForPackage(p) = 0
          /\ ExtractedPath(p) \in dirs

\* C14: when the completion of a task is run with success the package of
\* the task is installed (packageExists); an uninstall that finds the
\* package deletes the folder of its entry, and when it has removed the
\* entry the package is not installed.
C14_InstallThenUninstall ==
    [][/\ (MessageThreadFree /\ queue # << >> /\ queue' = Tail(queue))
            => LET m == Head(queue)
               IN  (m.kind = "finish" /\ m.success) => packageExists(tasks[m.task].info)
       /\ (msg.pc = "idle" /\ msg'.pc = "remove")
            => \A i \in 1..Len(packageState) :
                  packageState[i].obj = msg'.target => packageState[i].Path \notin dirs'
       /\ (msg.pc = "remove" /\ msg'.pc # "remove")
            => \A i \in 1..Len(packageState) :
                  packageState[i].obj = msg.target
                      => EntriesOf(packageState', packageState[i].ID) = {}]_vars

\* C14 witness: a package of the catalogue was installed in this run, its
\* completion was run with success, and it was then uninstalled: it has no
\* entry and no folder.
C14_Witness ==
    \E t \in TaskIds :
        /\ \E c \in calls : c.task = t /\ c.kind = "finish" /\ c.success
        /\ ~tasks[t].failed
        /\ "message" \in mutators
        /\ msg.pc = "idle"
        /\ EntriesOf(packageState, tasks[t].info.packageId) = {}
        /\ ExtractedPath(tasks[t].info) \notin dirs

\* ------------------------------------------ claims on the pure functions
\* Name, version, timestamp and author of two records are the same.
SameTuple(lhs, rhs) ==
    /\ lhs.name = rhs.name
    /\ lhs.version = rhs.version
    /\ lhs.timestamp = rhs.timestamp
    /\ lhs.author = rhs.author

\* C15: two records have the same identifier (they compare equal) if and
\* only if their name, version, timestamp and author are the same, also for
\* fields that hold the separator.
C15_IdentifierIffTuple ==
    idCheck.result # "none"
        => (idCheck.result = "equal" <=> SameTuple(idCheck.lhs, idCheck.rhs))

\* The places of the hyphens in a tag.
Hyphens(tag) == {i \in 1..Len(tag) : tag[i] = "-"}

\* The tag has a first and a later last hyphen; the text before the first
\* is the system, the text after the last is the float size, and the text
\* between them is one of the names of the machine.
ThreePartMatch(tag) ==
    /\ Hyphens(tag) # {}
    /\ LET first == CHOOSE i \in Hyphens(tag) : \A j \in Hyphens(tag) : i <= j
           last == CHOOSE i \in Hyphens(tag) : \A j \in Hyphens(tag) : i >= j
       IN  /\ first < last
           /\ SubSeq(tag, 1, first - 1) = os
           /\ SubSeq(tag, last + 1, Len(tag)) = floatsize
           /\ SubSeq(tag, first + 1, last - 1) \in machine

\* C16: checkArchitecture is true of exactly the tags whose text before the
\* first hyphen is the system, whose text after the last hyphen is the float
\* size and whose text between is a name of the machine; it is false of the
\* empty tag, of a bare system name and of a tag with a part missing.
C16_MatchesExactlyThreeParts ==
    archCheck.result # "none"
        => (archCheck.result = "match"
                <=> ThreePartMatch(JoinSegments(archCheck.segments)))

\* C16 witness: the tag Linux-32, which has no machine, was checked and did
\* not match.
C16_Witness ==
    /\ archCheck.segments = << os, floatsize >>
    /\ archCheck.result = "no match"

\* The names an x86-64 build accepts for the machine.
Amd64Aliases == { << "a", "m", "d", "6", "4" >>, << "x", "8", "6", "_", "6", "4" >> }

\* C17, as stated: a tag that matches no longer matches when any one of its
\* three segments is changed to another value.
C17_AnyChangeFails ==
    archCheck.changedResult # "none" => archCheck.changedResult = "no match"

\* C17, amended: a tag that matches no longer matches when its system or
\* its float size is changed to another value, or its machine to a value
\* that is not a name of the machine; it still matches when its machine is
\* changed to another name of the machine.
C17_ChangeFailsButForAliases ==
    archCheck.changedResult # "none"
        => (archCheck.changedResult = "match"
                <=> (archCheck.segment = 2
                        /\ archCheck.changed[2] \in Amd64Aliases))

\* C17 witness: Linux-amd64-32 matched, and does not with its float size
\* changed to 64.
C17_Witness ==
    /\ archCheck.segments = << os, << "a", "m", "d", "6", "4" >>, floatsize >>
    /\ archCheck.result = "match"
    /\ archCheck.segment = 3
    /\ archCheck.changed[3] = << "6", "4" >>
    /\ archCheck.changedResult = "no match"

\* ------------------------------------------------ claims on the catalogue
\* The packages the refresh has kept so far: the local list of
\* getAvailablePackages, and allPackages once run has assigned it.
Kept == IF refresher.pc = "exited" THEN allPackages ELSE refresher.packages

\* The variants of a library whose platform tag matches.
Matching(library) ==
    { library.variants[a] : a \in { b \in 1..Len(library.variants) :
                                      checkArchitecture(library.variants[b].platform) } }

\* lhs comes before rhs in the order of a dictionary: it is a proper
\* prefix of rhs, or has the lesser character where they first differ.
LexBefore(lhs, rhs) ==
    \E k \in 0..Len(lhs) :
        /\ k <= Len(rhs)
        /\ SubSeq(lhs, 1, k) = SubSeq(rhs, 1, k)
        /\ \/ (k = Len(lhs) /\ k < Len(rhs))
           \/ (k < Len(lhs) /\ k < Len(rhs) /\ Ord(lhs[k + 1]) < Ord(rhs[k + 1]))

\* No matching variant of the library has a timestamp after this one.
LatestOf(timestamp, library) ==
    \A m \in Matching(library) : ~LexBefore(timestamp, m.timestamp)

\* The identifier of the package made of a variant.
IdOf(variant) == CatalogueEntry(variant, << >>).info.packageId

\* C18: once the refresh is done with a library that has a matching
\* variant, the candidate selected for it has the greatest timestamp of all
\* its matching variants, whatever their version: the kept packages hold a
\* package with the identifier of such a variant, and every kept package
\* with the name of the library has such a timestamp.
C18_LatestVariantKept ==
    refresher.pc # "terminated" =>
        \A g \in 1..Len(server.libraries) :
            (refresher.g > g /\ Matching(server.libraries[g]) # {})
                => /\ \E i \in 1..Len(Kept) : \E m \in Matching(server.libraries[g]) :
                         /\ Kept[i].info.packageId = IdOf(m)
                         /\ LatestOf(m.timestamp, server.libraries[g])
                   /\ \A i \in 1..Len(Kept) :
                         Kept[i].info.name = server.libraries[g].name
                             => LatestOf(Kept[i].info.timestamp, server.libraries[g])

\* C18 witness: the library has a matching variant of timestamp 20 in its
\* first version and one of timestamp 21 in its second; the refresh is
\* over and the catalogue has the second.
C18_Witness ==
    /\ refresher.pc = "exited"
    /\ Len(server.libraries) = 1
    /\ Len(server.libraries[1].variants) = 2
    /\ server.libraries[1].variants[1].timestamp = << "2", "0" >>
    /\ server.libraries[1].variants[2].timestamp = << "2", "1" >>
    /\ server.libraries[1].variants[2].version = << "2" >>
    /\ Cardinality(Matching(server.libraries[1])) = 2
    /\ Len(allPackages) = 1
    /\ allPackages[1].info.timestamp = << "2", "1" >>
    /\ allPackages[1].info.version = << "2" >>

\* C19: every kept package, and every package of the catalogue, was made of
\* a variant whose platform tag matches; no two of them have the same name,
\* and no two the same identifier.
C19_CatalogueEntriesDistinct ==
    \A kept \in {Kept, allPackages} :
        /\ \A i \in 1..Len(kept) :
              \E g \in 1..Len(server.libraries) : \E m \in Matching(server.libraries[g]) :
                 kept[i].info = CatalogueEntry(m, << >>).info
        /\ \A i, j \in 1..Len(kept) :
              (kept[i].info.name = kept[j].info.name
                  \/ kept[i].info.packageId = kept[j].info.packageId) => i = j

\* C19 witness: two libraries had matching variants with one identifier;
\* the refresh is over and the catalogue has one package.
C19_Witness ==
    /\ refresher.pc = "exited"
    /\ Len(server.libraries) = 2
    /\ \E m \in Matching(server.libraries[1]) : \E n \in Matching(server.libraries[2]) :
          IdOf(m) = IdOf(n) /\ m.name # n.name
    /\ Len(allPackages) = 1

\* C20: whatever the server answers to search.json and to info.json, no
\* failure leaves getAvailablePackages or getObjectInfo: the thread is
\* never ended by an exception.
C20_RefreshNeverFails == refresher.pc # "terminated"


\* ------------------------------------- claims on the life of the catalogue
\* C21: allPackages is the catalogue last fetched with success: empty until
\* a run of the thread has fetched one, and then what the most recent run
\* whose fetch succeeded has returned; a run whose connection fails or that
\* is told to exit leaves it as it was.
C21_LastFetchedCatalogue == allPackages = log.lastFetched


\* The elements of block n; block 0 is no block.
ElementsOf(n) == IF n = 0 THEN << >> ELSE storage.blocks[n]

\* The catalogues allPackages has held: the empty one it starts with and
\* those assigned to it.
CataloguesHeld == { << >> } \cup { storage.blocks[n] : n \in 1..Len(storage.blocks) }

\* C22: a loop of filterResults over allPackages reads a whole catalogue,
\* one that allPackages held before or holds after the assignment of run:
\* begin() and end() are of one block, the block is not freed under the
\* loop, and the elements up to end() are all the elements of a catalogue.
C22_ReaderSeesWholeCatalogue ==
    deken.pc = "done"
        => /\ deken.first = deken.last
           /\ ~deken.dangling
           /\ deken.count <= Len(ElementsOf(deken.first))
           /\ SubSeq(ElementsOf(deken.first), 1, deken.count) \in CataloguesHeld


\* C23: a refresh asked for while the thread runs is not lost: the thread
\* does not come to rest, while the PackageManager lives, with a request
\* after which no fetch has begun.
C23_RequestWhileRunningIsServed ==
    pm = "alive" /\ ~isRefreshRunning => ~log.unserved


\* C24: the listeners are told of every start of the thread and of every
\* replacement of the catalogue: after such an event a change message is
\* pending until changeListenerCallback has run, but for the moment between
\* the assignment of run and its sendChangeMessage.
C24_RefreshEventsNotified ==
    log.owed /\ refresher.pc # "notify" => broadcaster.pending

\* The dialog listens, the second run has replaced the catalogue and sent
\* its change message, which is pending.
C24_Witness ==
    /\ deken.open
    /\ log.starts = 2
    /\ refresher.pc = "leaving"
    /\ allPackages # << >>
    /\ log.owed
    /\ broadcaster.pending


\* C25: the listeners are told when an install completes and when an
\* uninstall completes: once onFinish has been called for a task, or
\* uninstall has removed an entry and returned, a change message has been
\* sent (nothing takes a pending message away where installs are followed).
C25_CompletionsNotified ==
    ( (\E c \in calls : c.kind = "finish")
      \/ ("message" \in mutators /\ msg.pc = "idle") )
        => broadcaster.pending


\* C26: the thread looks at its exit flag between any two requests to the
\* server: once it is told to exit it sends at most one more request.
C26_OneRequestAfterStop ==
    refresher.shouldExit => refresher.requests - log.requestsAtStop <= 1


\* ------------------------------------------------- claims on the shutdown
\* The thread of task t was not started or has returned from run.
WorkerGone(t) == tasks[t].pc \in {"created", "exited", "cancelled"}

\* The tasks in downloads.
Active == { downloads[i] : i \in 1..Len(downloads) }

StageOf(task) ==
    IF task.pc = "created" THEN 0
    ELSE IF task.pc \in Downloading THEN 1
    ELSE IF task.pc \in Registering THEN 2
    ELSE 3

\* C28: a task goes through its stages in order; the registry holds the
\* entry a task made only when the task has left the loop and extracted;
\* and when the completion callback of a task is run the registry holds an
\* entry for its package (isInstalled is true).
C28_StagesInOrder ==
    /\ [][\A t \in TaskIds :
              t <= Len(tasks') => StageOf(tasks'[t]) >= StageOf(tasks[t])]_vars
    /\ [](\A i \in 1..Len(packageState) :
              packageState[i].obj \in TaskIds
                  => tasks[packageState[i].obj].pc \in {"reg_write_added", "exited"})
    /\ [][\A c \in calls' \ calls :
              c.kind = "finish" => packageExists(tasks[c.task].info)]_vars


\* onFinish has been called for task t.
Finished(t) == \E c \in calls : c.task = t /\ c.kind = "finish"

\* C29, as stated: a task leaves downloads only when its completion
\* callback has run and its thread has exited, and as long as it is in
\* downloads getDownloadForPackage returns it for its package.
C29_RemovedOnlyAfterCallback ==
    /\ [][\A t \in Active \ Active' : Finished(t)' /\ tasks[t].pc = "exited"]_vars
    /\ [](\A t \in Active : getDownloadForPackage(tasks[t].info) = t)

\* C29, corrected: outside the destructor of PackageManager a task leaves
\* downloads only when its completion callback has run and its thread has
\* exited (the destructor takes out the tasks that are left, with no
\* callback); and as long as a task is in downloads getDownloadForPackage
\* returns a task of downloads for the same package, the task itself when
\* it is the only one for the package.
C29_RemovedAfterCallbackUntilShutdown ==
    /\ [][pm = "alive"
            => \A t \in Active \ Active' : Finished(t)' /\ tasks[t].pc = "exited"]_vars
    /\ [](\A t \in Active :
              LET found == getDownloadForPackage(tasks[t].info)
              IN  /\ found \in Active
                  /\ SamePackage(tasks[found].info, tasks[t].info)
                  /\ (\A u \in Active \ {t} : ~SamePackage(tasks[u].info, tasks[t].info))
                        => found = t)

\* The completion callback of a task has run and the task has left
\* downloads, while another task is still there and is found.
C29_Witness ==
    /\ pm = "alive"
    /\ \E t \in TaskIds \ Active : Finished(t) /\ tasks[t].pc = "exited"
    /\ \E u \in Active : getDownloadForPackage(tasks[u].info) = u

\* The float that run computes from bytesDownloaded and totalBytes, kept
\* as the pair: it is a fraction of [0,1] when the divisor is positive and
\* the dividend is between 0 and the divisor.
InUnitInterval(num, den) == den > 0 /\ 0 <= num /\ num <= den

\* C30: every value handed to onProgress is bytesDownloaded / totalBytes
\* and lies in [0,1], also when the stream reports a length of -1 or 0.
C30_ProgressInUnitInterval ==
    [][Deliver /\ Head(queue).kind = "progress"
         => InUnitInterval(Head(queue).num, Head(queue).den)]_vars

\* url is orig with a leading http:// turned into https://.
SecureFormOf(url, orig) ==
    IF Len(orig) >= Len(HttpScheme) /\ SubSeq(orig, 1, Len(HttpScheme)) = HttpScheme
    THEN url = HttpsScheme \o SubSeq(orig, Len(HttpScheme) + 1, Len(orig))
    ELSE url = orig

\* The values install is called with (by value: the caller's PackageInfo
\* is copied into the parameter).
InstallArguments == Installable \cup StorePackages

\* C31: the PackageInfo of every task is the caller's with only the URL
\* changed, from http:// to https://, so it has the caller's packageId;
\* and the entry a task puts in the registry has the task's URL.
C31_UrlNormalizedInNewValue ==
    /\ \A t \in 1..Len(tasks) :
          \E p \in InstallArguments :
             /\ tasks[t].info = [p EXCEPT !.url = tasks[t].info.url]
             /\ SecureFormOf(tasks[t].info.url, p.url)
             /\ SamePackage(tasks[t].info, p)
    /\ \A i \in 1..Len(packageState) :
          packageState[i].obj \in 1..Len(tasks)
             => /\ packageState[i].URL = tasks[packageState[i].obj].info.url
                /\ \E p \in InstallArguments : SecureFormOf(packageState[i].URL, p.url)
                /\ IndexOf(packageState[i].URL, HttpScheme) = 0

\* A package offered at an http:// URL is registered with the https:// one.
C31_Witness ==
    \E i \in 1..Len(packageState) :
       /\ packageState[i].obj \in 1..Len(tasks)
       /\ packageState[i].URL = HttpsScheme \o SubSeq(HttpUrl, Len(HttpScheme) + 1, Len(HttpUrl))
       /\ packageState[i].URL # HttpUrl

\* C32, in its finite-run form: every task that install added to downloads
\* is removed in the end, also one whose connection failed; when nothing is
\* left to run while the PackageManager lives, downloads is empty and
\* getDownloadForPackage finds no task.
C32_NoTaskLeftBehind ==
    pm = "alive" /\ Quiescent
       => /\ downloads = << >>
          /\ \A p \in InstallArguments : getDownloadForPackage(p) = 0

\* C33: when the change message that run sends after a refresh reaches
\* the dialog, isThreadRunning is false, so the dialog, which takes its
\* state from it in changeListenerCallback, stops its spinner.
C33_IdleAfterRefresh ==
    [][changeListenerCallback /\ refresher.pc \in {"leaving", "exited"}
          => ~isRefreshRunning /\ ~deken.spinning']_vars

\* C34: the thread started in the constructor never reads destination
\* before the constructor has assigned it: the folder run gives to
\* uncompressTo is the parent of the file install passed.
C34_ExtractionUsesDestination ==
    \A t \in TaskIds :
       tasks[t].unzippedTo # NotExtracted
          => tasks[t].unzippedTo = getParentDirectory(DestinationOf(tasks[t].info))

\* C35: when the message thread runs a queued progress or completion
\* lambda of a task, onProgress and onFinish of the task have been
\* assigned, whatever the worker did between install and attachToDownload.
C35_CallbackAttachedWhenRun ==
    [][Deliver => tasks[Head(queue).task].attached]_vars

\* The thread of a task was ahead of the click handler (it reached
\* uncompressTo before the constructor had returned), and its completion
\* lambda has run since, with the callbacks attached.
C35_Witness ==
    \E t \in TaskIds :
       /\ tasks[t].attached
       /\ tasks[t].unzippedTo = DefaultFile
       /\ \E c \in calls : c.task = t /\ c.kind = "finish"

\* The children of the registry tree, as a set.
Entries(tree) == { tree[i] : i \in 1..Len(tree) }

\* C36: every entry has a folder of its own, so no step deletes the folder
\* that is the Path of an entry that stays in the registry (an entry other
\* than the one uninstall is removing), also when two entries have the same
\* package name.
C36_OwnFolderPerEntry ==
    [][\A e \in Entries(packageState) \cap Entries(packageState') :
          /\ msg'.pc = "remove" => e.obj # msg'.target
          /\ e.Path \in dirs
          => e.Path \in dirs']_vars

\* tree without the child that is the object obj.
WithoutChild(tree, obj) == SelectSeq(tree, LAMBDA e : e.obj # obj)

\* C37: uninstall removes the entry it found and nothing else, the other
\* entries keep their values and their order; and every change of the
\* registry is the removal of one entry or the addition of one entry at
\* the end, the others staying as they are.
C37_OtherEntriesUntouched ==
    [][/\ msg.pc = "remove" /\ msg'.pc # "remove"
            => packageState' = WithoutChild(packageState, msg.target)
       /\ packageState' # packageState
            => \/ \E i \in 1..Len(packageState) :
                     packageState' = SubSeq(packageState, 1, i - 1)
                                        \o SubSeq(packageState, i + 1, Len(packageState))
               \/ /\ Len(packageState') = Len(packageState) + 1
                  /\ SubSeq(packageState', 1, Len(packageState)) = packageState
                  /\ packageState'[Len(packageState')].obj \in TaskIds]_vars

\* A package was added after the one an earlier run left, and the older one
\* was then uninstalled: the newer entry is what remains.
C37_Witness ==
    /\ Len(packageState) = 1
    /\ packageState[1].obj \in TaskIds
    /\ packageState[1].ID # InstalledBefore.packageId
    /\ pkgInfo = toXmlString(packageState)
    /\ mutators = {"worker", "message"}
    /\ msg.pc = "idle"

\* The float of the progress lambda a is not greater than that of b, for
\* two lambdas of one task (the same divisor): the order of the dividends
\* when the divisor is positive, the reverse when it is negative, and
\* infinity twice when it is 0.
NotGreater(a, b) ==
    IF a.den > 0 THEN a.num <= b.num
    ELSE IF a.den < 0 THEN a.num >= b.num
    ELSE TRUE

\* C38: the lambdas of one task are queued, and so run, in the order of
\* the chunks, the values of the progress lambdas do not decrease, and the
\* completion lambda comes after all the progress lambdas.
C38_ProgressInOrder ==
    \A i, j \in 1..Len(queue) :
       i < j /\ queue[i].task = queue[j].task
          => /\ queue[i].kind = "progress"
             /\ queue[j].kind = "progress"
                  => queue[i].num < queue[j].num /\ NotGreater(queue[i], queue[j])

\* C39: when uninstall has returned for a package and install was not
\* called for it since (every task of the package was made before the
\* call), packageExists is false for it, also when one of those tasks was
\* still running at the call.
C39_StaysUninstalled ==
    msg.pc = "idle"
       => \A t \in TaskIds :
             (\A u \in TaskIds :
                 SamePackage(tasks[u].info, tasks[t].info) => tasks[u].uninstalled)
                => ~packageExists(tasks[t].info)

\* C40: at most one thread of PackageManager runs at any time: a request
\* for a refresh (the constructor, update, the refresh button) launches the
\* thread only when the one before has left run, and allPackages is
\* written by that thread only.
C40_OneRefreshWorker ==
    [][/\ log'.starts > log.starts
            => /\ refresher.pc \in {"exited", "terminated"}
               /\ refresher'.pc = "fetch"
       /\ allPackages' # allPackages => refresher.pc = "assign"]_vars

\* The refresh button was used while the second run of the thread was in
\* getAvailablePackages: no thread was launched for it.
C40_Witness ==
    /\ log.starts = MaxRefreshes
    /\ log.unserved
    /\ refresher.pc \in {"library", "variant"}
    /\ refresher.requests > 0

=============================================================================
